---- MODULE Spec2Model ----
(***************************************************************************)
(* Model of the migration engine of the operator repository: CIDR          *)
(* containment and the platform pod CIDR merge (package utils), the CNI    *)
(* configuration loaders and the field handlers (package parser), the      *)
(* GetExistingConfig orchestrator, and the platform pod CIDR discovery     *)
(* (packages kubeadm and openshift, handleCanal of package convert).       *)
(*                                                                         *)
(* Text is modelled structurally.  A CIDR literal is a record of the       *)
(* tokens net.ParseCIDR reads: the separator of the address groups, the    *)
(* groups as numbers, whether a "/" occurs, and the number after it.       *)
(* Addresses are byte sequences, as in package net.                        *)
(***************************************************************************)
EXTENDS Integers, Naturals, Sequences, FiniteSets, TLC

VARIABLES
    cidrIn,      \* <<cidr, pool>>: the arguments of one cidrWithinCidr call
    cidrOut,     \* NotCalled before the call, then the boolean it returned
    ippools,     \* i.Spec.CalicoNetwork.IPPools: nil or a sequence of pools
    ippools0,    \* the value of ippools when MergePlatformPodCIDRs was called
    platform,    \* platformCIDRs
    mergeRet,    \* NotCalled before the call, then the error returned
    client,      \* what client.Get answers: the workloads and the ConfigMap
    comps,       \* the components: checkedVars and the loaded CNI configuration
    config,      \* the output configuration the handlers write
    calicoConf,  \* handleCNI's local calicoConf, nil until it is unmarshalled
    pc,          \* the position of the conversion
    log,         \* the handlers that have run, in order
    errs,        \* what each of them returned, in the same order
    ret,         \* NotCalled, then what GetExistingConfig returned
    call,        \* a call made on its own: the function and its arguments
    out,         \* NotCalled, then what that call returned
    gets         \* the objects client.Get was asked for by those calls, in order

cidrVars == <<cidrIn, cidrOut>>
mergeVars == <<ippools, ippools0, platform, mergeRet>>
convVars == <<client, comps, config, calicoConf, pc, log, errs, ret>>
unitVars == <<call, out, gets>>
vars == <<cidrIn, cidrOut, ippools, ippools0, platform, mergeRet,
          client, comps, config, calicoConf, pc, log, errs, ret, call, out, gets>>

\* Go's nil, one value per type: an error, an IP, and a nil slice of pools as
\* distinct from an empty one.
NilErr == [type |-> "nil"]
NilIP == <<>>
NilPools == [nil |-> TRUE, items |-> <<>>]
Pools(items) == [nil |-> FALSE, items |-> items]
\* The value of a result variable before the call it records.
NotCalled == [type |-> "none"]

(***************************************************************************)
(* Bounds of the model.                                                    *)
(***************************************************************************)
MaxPlatform == 2
MaxPools == 2

(***************************************************************************)
(* Generic helpers.                                                        *)
(***************************************************************************)
RECURSIVE Pow2(_)
Pow2(n) == IF n = 0 THEN 1 ELSE 2 * Pow2(n - 1)

Min(a, b) == IF a < b THEN a ELSE b
Max(a, b) == IF a > b THEN a ELSE b

SeqsUpTo(S, n) == UNION {[1..k -> S] : k \in 0..n}

\* b & m on two bytes.
RECURSIVE AndByte(_, _)
AndByte(b, m) ==
    IF b = 0 \/ m = 0 THEN 0
    ELSE 2 * AndByte(b \div 2, m \div 2) + (b % 2) * (m % 2)

(***************************************************************************)
(* CIDR literals.                                                          *)
(***************************************************************************)
V4(a, b, c, d, n) == [sep |-> ".", groups |-> <<a, b, c, d>>, slash |-> TRUE, plen |-> n]
V6(g, n) == [sep |-> ":", groups |-> g, slash |-> TRUE, plen |-> n]
NoSlash(t) == [t EXCEPT !.slash = FALSE]

\* The literals of utils_test.go, both families.
T_192_168_16 == V4(192, 168, 0, 0, 16)
T_192_168_15 == V4(192, 168, 0, 0, 15)
T_192_168_2_24 == V4(192, 168, 2, 0, 24)
T_172_168_16 == V4(172, 168, 0, 0, 16)
T_fd00_1234_32 == V6(<<64768, 4660, 0, 0, 0, 0, 0, 0>>, 32)
T_fd00_1234_31 == V6(<<64768, 4660, 0, 0, 0, 0, 0, 0>>, 31)
T_fd00_1234_56_40 == V6(<<64768, 4660, 22016, 0, 0, 0, 0, 0>>, 40)
T_fd00_5678_32 == V6(<<64768, 22136, 0, 0, 0, 0, 0, 0>>, 32)
\* Further literals: host bits set, the widest and the narrowest prefix, and
\* malformed ones.  (IPv4-mapped IPv6 literals are not among the inputs.)
T_10_8 == V4(10, 0, 0, 0, 8)
T_10_1_16 == V4(10, 1, 0, 0, 16)
T_10_1_2_3_16 == V4(10, 1, 2, 3, 16)
T_0_0 == V4(0, 0, 0, 0, 0)
T_10_1_2_3_32 == V4(10, 1, 2, 3, 32)
T_fd00_48 == V6(<<64768, 0, 0, 0, 0, 0, 0, 0>>, 48)
T_v6_0 == V6(<<0, 0, 0, 0, 0, 0, 0, 0>>, 0)
T_bad_33 == V4(10, 0, 0, 0, 33)
T_bad_octet == V4(256, 0, 0, 0, 8)
T_bad_short == [sep |-> ".", groups |-> <<10, 0, 0>>, slash |-> TRUE, plen |-> 8]
T_bad_noslash == NoSlash(T_10_8)
T_bad_129 == V6(<<64768, 0, 0, 0, 0, 0, 0, 0>>, 129)
T_bad_hextet == V6(<<65536, 0, 0, 0, 0, 0, 0, 0>>, 16)
T_bad_text == [sep |-> "?", groups |-> <<>>, slash |-> FALSE, plen |-> 0]

CidrTexts ==
    { T_192_168_16, T_192_168_15, T_192_168_2_24, T_172_168_16,
      T_fd00_1234_32, T_fd00_1234_31, T_fd00_1234_56_40, T_fd00_5678_32,
      T_10_8, T_10_1_16, T_10_1_2_3_16, T_0_0, T_10_1_2_3_32,
      T_fd00_48, T_v6_0,
      T_bad_33, T_bad_octet, T_bad_short, T_bad_noslash, T_bad_129,
      T_bad_hextet, T_bad_text }

\* The literals the merge is run on.
MergeTexts ==
    { T_10_8, T_10_1_16, T_192_168_16, T_fd00_1234_32, T_fd00_1234_56_40, T_bad_33 }

(***************************************************************************)
(* Package net, as far as the code uses it.                                *)
(***************************************************************************)
v4InV6Prefix == <<0, 0, 0, 0, 0, 0, 0, 0, 0, 0, 255, 255>>

\* parseIPv4: four decimal groups of at most 255 each; the 16-byte form.
parseIPv4(t) ==
    IF t.sep = "." /\ Len(t.groups) = 4 /\ \A i \in 1..4 : t.groups[i] \in 0..255
    THEN v4InV6Prefix \o t.groups
    ELSE NilIP

\* parseIPv6: eight groups of 16 bits each, split into bytes.
parseIPv6(t) ==
    IF t.sep = ":" /\ Len(t.groups) = 8 /\ \A i \in 1..8 : t.groups[i] \in 0..65535
    THEN [i \in 1..16 |->
            IF i % 2 = 1 THEN t.groups[(i + 1) \div 2] \div 256
            ELSE t.groups[i \div 2] % 256]
    ELSE NilIP

\* IP.To4: the 4-byte form of an IPv4 address, nil for any other address.
To4(ip) ==
    IF Len(ip) = 4 THEN ip
    ELSE IF Len(ip) = 16 /\ SubSeq(ip, 1, 12) = v4InV6Prefix THEN SubSeq(ip, 13, 16)
    ELSE NilIP

\* net.CIDRMask(ones, bits).
CIDRMask(ones, bits) ==
    [i \in 1..(bits \div 8) |-> 256 - Pow2(8 - Max(0, Min(8, ones - 8 * (i - 1))))]

\* IP.Mask(mask).
IPMask(ip, mask) ==
    LET ip2 == IF Len(mask) = 4 /\ Len(ip) = 16 /\ SubSeq(ip, 1, 12) = v4InV6Prefix
               THEN SubSeq(ip, 13, 16) ELSE ip
    IN  IF Len(ip2) # Len(mask) THEN NilIP
        ELSE [i \in 1..Len(ip2) |-> AndByte(ip2[i], mask[i])]

\* net.ParseCIDR: [err, ip, net], net being the IPNet [IP, Mask].
ParseCIDR(t) ==
    LET v4 == parseIPv4(t)
        iplen == IF v4 # NilIP THEN 4 ELSE 16
        ip == IF v4 # NilIP THEN v4 ELSE parseIPv6(t)
    IN  IF ~t.slash \/ ip = NilIP \/ t.plen < 0 \/ t.plen > 8 * iplen
        THEN [err |-> [type |-> "ParseError"], ip |-> NilIP, net |-> [IP |-> NilIP, Mask |-> <<>>]]
        ELSE LET m == CIDRMask(t.plen, 8 * iplen)
             IN  [err |-> NilErr, ip |-> ip, net |-> [IP |-> IPMask(ip, m), Mask |-> m]]

\* The leading one bits of a byte.
RECURSIVE LeadingOnes(_, _)
LeadingOnes(b, k) ==
    IF k = 0 \/ b < 128 THEN 0 ELSE 1 + LeadingOnes((2 * b) % 256, k - 1)

\* IPMask.Size: the number of leading ones of a canonical mask.
RECURSIVE MaskOnes(_, _)
MaskOnes(m, i) ==
    IF i > Len(m) THEN 0
    ELSE IF m[i] = 255 THEN 8 + MaskOnes(m, i + 1)
    ELSE LeadingOnes(m[i], 8)

\* IPNet.Contains(ip), with networkNumberAndMask.
Contains(n, ip) ==
    LET n4 == To4(n.IP)
        nn == IF n4 # NilIP THEN n4 ELSE n.IP
        m == IF Len(n.Mask) = 16 /\ Len(nn) = 4 THEN SubSeq(n.Mask, 13, 16) ELSE n.Mask
        x == To4(ip)
        ip2 == IF x # NilIP THEN x ELSE ip
    IN  /\ Len(ip2) = Len(nn)
        /\ Len(m) = Len(nn)
        /\ \A i \in 1..Len(nn) : AndByte(nn[i], m[i]) = AndByte(ip2[i], m[i])

(***************************************************************************)
(* package utils: cidrWithinCidr and MergePlatformPodCIDRs.                *)
(***************************************************************************)
\* A plausible slip: the prefix comparison made strict.
cidrWithinCidr_strict(cidr, pool) ==
    LET c == ParseCIDR(cidr)
        p == ParseCIDR(pool)
    IN  IF c.err # NilErr THEN FALSE
        ELSE IF p.err # NilErr THEN FALSE
        ELSE Contains(c.net, p.net.IP) /\ MaskOnes(p.net.Mask, 1) > MaskOnes(c.net.Mask, 1)

cidrWithinCidr(cidr, pool) ==
    LET c == ParseCIDR(cidr)
        p == ParseCIDR(pool)
    IN  IF c.err # NilErr THEN FALSE
        ELSE IF p.err # NilErr THEN FALSE
        ELSE LET ipMin == p.net.IP
                 pOnes == MaskOnes(p.net.Mask, 1)
                 cOnes == MaskOnes(c.net.Mask, 1)
             IN  Contains(c.net, ipMin) /\ pOnes >= cOnes

\* IPPools = append(IPPools, operatorv1.IPPool{CIDR: c}); appending to nil allocates.
appendPool(pools, c) == Pools(Append(pools.items, [CIDR |-> c]))

\* A plausible slip: the v4found/v6found guards dropped, so every parseable
\* CIDR becomes a pool.
RECURSIVE scanPlatform_noGuard(_, _, _, _, _)
scanPlatform_noGuard(cidrs, k, v4found, v6found, pools) ==
    IF k > Len(cidrs) THEN pools
    ELSE IF ParseCIDR(cidrs[k]).err # NilErr
         THEN scanPlatform_noGuard(cidrs, k + 1, v4found, v6found, pools)
         ELSE scanPlatform_noGuard(cidrs, k + 1, v4found, v6found, appendPool(pools, cidrs[k]))

\* The loop over platformCIDRs of the nil-IPPools branch, from index k on.
RECURSIVE scanPlatform(_, _, _, _, _)
scanPlatform(cidrs, k, v4found, v6found, pools) ==
    IF k > Len(cidrs) THEN pools
    ELSE LET c == cidrs[k]
             r == ParseCIDR(c)
         IN  IF r.err # NilErr
             THEN scanPlatform(cidrs, k + 1, v4found, v6found, pools)   \* logged, continue
             ELSE IF To4(r.ip) = NilIP
             THEN IF v6found
                  THEN scanPlatform(cidrs, k + 1, v4found, v6found, pools)
                  ELSE IF v4found
                       THEN appendPool(pools, c)                        \* break
                       ELSE scanPlatform(cidrs, k + 1, v4found, TRUE, appendPool(pools, c))
             ELSE IF v4found
                  THEN scanPlatform(cidrs, k + 1, v4found, v6found, pools)
                  ELSE IF v6found
                       THEN appendPool(pools, c)                        \* break
                       ELSE scanPlatform(cidrs, k + 1, TRUE, v6found, appendPool(pools, c))

\* A plausible slip: the arguments of cidrWithinCidr swapped.
poolWithin_swapped(cidrs, pool) ==
    \E k \in 1..Len(cidrs) : cidrWithinCidr(pool.CIDR, cidrs[k])

\* The inner loop of the configured-pools branch: within = within || cidrWithinCidr(c, pool.CIDR).
poolWithin(cidrs, pool) ==
    \E k \in 1..Len(cidrs) : cidrWithinCidr(cidrs[k], pool.CIDR)

\* fmt.Errorf("IPPool %v is not within the platform's configured pod network CIDR(s)", pool.CIDR)
errPoolNotWithin(pool) ==
    [type |-> "errorString", text |-> "IPPool is not within the platform's configured pod network CIDR(s)",
     arg |-> pool.CIDR]

\* MergePlatformPodCIDRs(i, platformCIDRs): [pools, err], pools being
\* i.Spec.CalicoNetwork.IPPools on return.
MergePlatformPodCIDRs(pools, platformCIDRs) ==
    IF pools.nil
    THEN IF Len(platformCIDRs) = 0
         THEN [pools |-> pools, err |-> NilErr]
         ELSE [pools |-> scanPlatform(platformCIDRs, 1, FALSE, FALSE, pools), err |-> NilErr]
    ELSE IF Len(pools.items) = 0
    THEN [pools |-> pools, err |-> NilErr]
    ELSE LET bad == {j \in 1..Len(pools.items) : ~poolWithin(platformCIDRs, pools.items[j])}
         IN  IF bad = {}
             THEN [pools |-> pools, err |-> NilErr]
             ELSE LET first == CHOOSE j \in bad : \A j2 \in bad : j <= j2
                  IN  [pools |-> pools, err |-> errPoolNotWithin(pools.items[first])]

(***************************************************************************)
(* package parser: the cluster snapshot.                                   *)
(*                                                                         *)
(* A string value is a sequence of one-character strings; the text of a    *)
(* CNI network configuration is a record of what the parsers read from it. *)
(***************************************************************************)
Str(chars) == [kind |-> "str", chars |-> chars]
EmptyStr == Str(<<>>)
CNIText(doc) == [kind |-> "cni", doc |-> doc]

\* Pointers: nil or pointing at a value.
NilPtr == [nil |-> TRUE]
Ptr(v) == [nil |-> FALSE, v |-> v]

\* corev1.EnvVar.ValueFrom.
NoValueFrom == [kind |-> "nil"]
ConfigMapKeyRef(name, key) == [kind |-> "configMapKeyRef", name |-> name, key |-> key]
SecretKeyRef == [kind |-> "secretKeyRef"]
FieldRef == [kind |-> "fieldRef"]
ResourceFieldRef == [kind |-> "resourceFieldRef"]

EnvVar(name, value, from) == [Name |-> name, Value |-> value, ValueFrom |-> from]
Literal(name, chars) == EnvVar(name, Str(chars), NoValueFrom)

Container(name, env) == [Name |-> name, Env |-> env]

containerCalicoNode == "calico-node"
containerInstallCNI == "install-cni"

\* Errors.
ErrIncompatibleCluster(msg) == [type |-> "ErrIncompatibleCluster", err |-> msg]
\* ErrIncompatibleCluster{fmt.Sprintf(format, arg)}
ErrIncompatibleClusterf(format, arg) ==
    [type |-> "ErrIncompatibleCluster", err |-> format, arg |-> arg]
errorString(msg) == [type |-> "errorString", err |-> msg]
StatusError(reason) == [type |-> "StatusError", reason |-> reason]
SyntaxError == [type |-> "json.SyntaxError"]
InvalidUnmarshalError == [type |-> "json.InvalidUnmarshalError"]
\* A nil pointer dereference: no error value, the goroutine panics.
Panic == [type |-> "panic"]

(***************************************************************************)
(* Environment resolution and the checklist (RaemonSet).                   *)
(***************************************************************************)
\* client.Get of a ConfigMap in kube-system: [err, Data].
getConfigMap(cluster, name) ==
    IF cluster.cm.get = "error" THEN [err |-> StatusError("InternalError"), Data |-> <<>>]
    ELSE IF cluster.cm.get = "notfound" \/ name # cluster.cm.name
    THEN [err |-> StatusError("NotFound"), Data |-> <<>>]
    ELSE [err |-> NilErr, Data |-> cluster.cm.Data]

\* cm.Data[key]: the zero value "" for a missing key.  Data is a sequence of
\* <<key, value>> pairs with distinct keys.
mapLookup(data, key) ==
    IF \E i \in 1..Len(data) : data[i][1] = key
    THEN data[CHOOSE i \in 1..Len(data) : data[i][1] = key][2]
    ELSE EmptyStr

\* What client.Get is asked for when a ConfigMap is fetched.
getRequest(name) == [Kind |-> "ConfigMap", Namespace |-> "kube-system", Name |-> name]

\* A plausible slip: an indirection that is not supported resolves to the
\* empty string.
getEnvVar_unsupportedAsEmpty(cluster, e) ==
    IF e.Value # EmptyStr THEN [val |-> e.Value, err |-> NilErr, gets |-> <<>>]
    ELSE IF e.ValueFrom.kind = "nil" THEN [val |-> EmptyStr, err |-> Panic, gets |-> <<>>]
    ELSE IF e.ValueFrom.kind = "configMapKeyRef"
    THEN LET cm == getConfigMap(cluster, e.ValueFrom.name)
         IN  IF cm.err # NilErr
             THEN [val |-> EmptyStr, err |-> cm.err, gets |-> <<getRequest(e.ValueFrom.name)>>]
             ELSE [val |-> mapLookup(cm.Data, e.ValueFrom.key), err |-> NilErr,
                   gets |-> <<getRequest(e.ValueFrom.name)>>]
    ELSE [val |-> EmptyStr, err |-> NilErr, gets |-> <<>>]

\* getEnvVar: [val, err, gets], gets being the client.Get calls it made.  A
\* nil e.ValueFrom is dereferenced when e.Value is empty.
getEnvVar(cluster, e) ==
    IF e.Value # EmptyStr THEN [val |-> e.Value, err |-> NilErr, gets |-> <<>>]
    ELSE IF e.ValueFrom.kind = "nil" THEN [val |-> EmptyStr, err |-> Panic, gets |-> <<>>]
    ELSE IF e.ValueFrom.kind = "configMapKeyRef"
    THEN LET cm == getConfigMap(cluster, e.ValueFrom.name)
         IN  IF cm.err # NilErr
             THEN [val |-> EmptyStr, err |-> cm.err, gets |-> <<getRequest(e.ValueFrom.name)>>]
             ELSE [val |-> mapLookup(cm.Data, e.ValueFrom.key), err |-> NilErr,
                   gets |-> <<getRequest(e.ValueFrom.name)>>]
    ELSE [val |-> EmptyStr,
          err |-> ErrIncompatibleCluster("only configMapRef & explicit values supported for env vars at this time"),
          gets |-> <<>>]

\* getEnv: the first variable of that name; a nil pointer when there is none.
getEnv(cluster, env, key) ==
    LET hits == {i \in 1..Len(env) : env[i].Name = key}
    IN  IF hits = {} THEN [ptr |-> NilPtr, err |-> NilErr, gets |-> <<>>]
        ELSE LET i == CHOOSE i \in hits : \A j \in hits : i <= j
                 r == getEnvVar(cluster, env[i])
             IN  [ptr |-> Ptr(r.val), err |-> r.err, gets |-> r.gets]

getContainer(containers, name) ==
    LET hits == {i \in 1..Len(containers) : containers[i].Name = name}
    IN  IF hits = {} THEN NilPtr
        ELSE Ptr(containers[CHOOSE i \in hits : \A j \in hits : i <= j])

\* getContainers: the regular containers first, then the init containers.
getContainers(spec, name) ==
    LET c == getContainer(spec.Containers, name)
    IN  IF ~c.nil THEN c ELSE getContainer(spec.InitContainers, name)

\* checkedVars is the set of <<container, name>> pairs marked so far.
ignoreEnv(checkedVars, container, key) == checkedVars \cup {<<container, key>>}

\* RaemonSet.getEnv, once getContainers has answered c: [ptr, err, checkedVars,
\* gets].
getEnvOf(cluster, checkedVars, container, key, c) ==
    IF c.nil
    THEN [ptr |-> NilPtr,
          err |-> ErrIncompatibleClusterf("couldn't find %s container in existing calico-node daemonset",
                                          container),
          checkedVars |-> checkedVars,
          gets |-> <<>>]
    ELSE [ptr |-> getEnv(cluster, c.v.Env, key).ptr,
          err |-> getEnv(cluster, c.v.Env, key).err,
          checkedVars |-> ignoreEnv(checkedVars, container, key),
          gets |-> getEnv(cluster, c.v.Env, key).gets]

\* RaemonSet.getEnv
nodeGetEnv(cluster, checkedVars, container, key) ==
    getEnvOf(cluster, checkedVars, container, key, getContainers(cluster.spec, container))

\* RaemonSet.uncheckedVars: the regular containers only, in order.
RECURSIVE uncheckedIn(_, _, _, _)
uncheckedIn(checkedVars, containers, ci, vi) ==
    IF ci > Len(containers) THEN <<>>
    ELSE IF vi > Len(containers[ci].Env) THEN uncheckedIn(checkedVars, containers, ci + 1, 1)
    ELSE LET t == containers[ci]
             v == t.Env[vi]
             rest == uncheckedIn(checkedVars, containers, ci, vi + 1)
         IN  IF <<t.Name, v.Name>> \notin checkedVars
             THEN <<<<t.Name, v.Name>>>> \o rest
             ELSE rest

uncheckedVars(cluster, checkedVars) == uncheckedIn(checkedVars, cluster.spec.Containers, 1, 1)

(***************************************************************************)
(* Strings of the environment.                                             *)
(***************************************************************************)
S_bird == <<"b", "i", "r", "d">>
S_vxlan == <<"v", "x", "l", "a", "n">>
S_kubernetes == <<"k", "u", "b", "e", "r", "n", "e", "t", "e", "s">>
S_etcdv3 == <<"e", "t", "c", "d", "v", "3">>
S_accept == <<"a", "c", "c", "e", "p", "t">>
S_ACCEPT == <<"A", "C", "C", "E", "P", "T">>
S_Drop == <<"D", "r", "o", "p">>
S_autodetect == <<"a", "u", "t", "o", "d", "e", "t", "e", "c", "t">>
S_Autodetect == <<"A", "u", "t", "o", "d", "e", "t", "e", "c", "t">>
S_none == <<"n", "o", "n", "e">>
S_first_found == <<"f", "i", "r", "s", "t", "-", "f", "o", "u", "n", "d">>
S_can_reach_ == <<"c", "a", "n", "-", "r", "e", "a", "c", "h", "=">>
S_interface_ == <<"i", "n", "t", "e", "r", "f", "a", "c", "e", "=">>
S_skip_interface_ == <<"s", "k", "i", "p", "-", "i", "n", "t", "e", "r", "f", "a", "c", "e", "=">>
S_eth0 == <<"e", "t", "h", "0">>
S_1440 == <<"1", "4", "4", "0">>
S_9000 == <<"9", "0", "0", "0">>
S_0 == <<"0">>
\* 2^32 + 1440
S_4294968736 == <<"4", "2", "9", "4", "9", "6", "8", "7", "3", "6">>
S_bar == <<"b", "a", "r">>

UpperCase == <<"A", "B", "C", "D", "E", "F", "G", "H", "I", "J", "K", "L", "M",
               "N", "O", "P", "Q", "R", "S", "T", "U", "V", "W", "X", "Y", "Z">>
LowerCase == <<"a", "b", "c", "d", "e", "f", "g", "h", "i", "j", "k", "l", "m",
               "n", "o", "p", "q", "r", "s", "t", "u", "v", "w", "x", "y", "z">>

\* strings.ToLower.
ToLower(chars) ==
    [i \in 1..Len(chars) |->
        IF \E k \in 1..26 : UpperCase[k] = chars[i]
        THEN LowerCase[CHOOSE k \in 1..26 : UpperCase[k] = chars[i]]
        ELSE chars[i]]

\* strings.HasPrefix, strings.TrimPrefix.
HasPrefix(chars, prefix) ==
    Len(chars) >= Len(prefix) /\ SubSeq(chars, 1, Len(prefix)) = prefix
TrimPrefix(chars, prefix) ==
    IF HasPrefix(chars, prefix) THEN SubSeq(chars, Len(prefix) + 1, Len(chars)) ELSE chars

DecimalDigits == <<"0", "1", "2", "3", "4", "5", "6", "7", "8", "9">>
IsDigit(ch) == \E k \in 1..10 : DecimalDigits[k] = ch
DigitValue(ch) == (CHOOSE k \in 1..10 : DecimalDigits[k] = ch) - 1

RECURSIVE Pow10(_)
Pow10(j) == IF j = 0 THEN 1 ELSE 10 * Pow10(j - 1)

\* The digits from i on, each times one 16-bit half of its weight 10^j: the
\* sums from which the value is put together modulo 2^32.
RECURSIVE decimalValue(_, _, _)
decimalValue(digits, i, half) ==
    IF i > Len(digits) THEN 0
    ELSE DigitValue(digits[i]) *
             (IF half = "hi" THEN Pow10(Len(digits) - i) \div 65536
              ELSE Pow10(Len(digits) - i) % 65536)
         + decimalValue(digits, i + 1, half)

\* strconv.Atoi: an optional sign and at least one digit; 0 and an error for
\* anything else.  The int is wider than 32 bits, so it is kept as its sign
\* and its digits.  (The strings of the model have at most ten digits.)
Atoi(chars) ==
    LET signed == Len(chars) > 0 /\ chars[1] \in {"+", "-"}
        body == IF signed THEN Tail(chars) ELSE chars
    IN  IF Len(body) = 0 \/ \E i \in 1..Len(body) : ~IsDigit(body[i])
        THEN [digits |-> <<>>, negative |-> FALSE, err |-> TRUE]
        ELSE [digits |-> body, negative |-> signed /\ chars[1] = "-", err |-> FALSE]

\* int32(n): n modulo 2^32 read as a signed 32-bit number.
int32(digits, negative) ==
    LET low == decimalValue(digits, 1, "lo")
        hi == (decimalValue(digits, 1, "hi") + low \div 65536) % 65536
        lo == low % 65536
        n == IF hi >= 32768 THEN (hi - 65536) * 65536 + lo ELSE hi * 65536 + lo
    IN  IF negative /\ ~(hi = 32768 /\ lo = 0) THEN 0 - n ELSE n

\* int32(intstr.FromString(s).IntValue()): IntValue drops Atoi's error.
mtuFromString(v) == int32(Atoi(v.chars).digits, Atoi(v.chars).negative)

\* getAutoDetection: [res, err].
NoAutodetection ==
    [FirstFound |-> NilPtr, Interface |-> <<>>, CanReach |-> <<>>, SkipInterface |-> <<>>]

getAutoDetection(method) ==
    IF method = <<>> \/ method = S_first_found
    THEN [res |-> [NoAutodetection EXCEPT !.FirstFound = Ptr(TRUE)], err |-> NilErr]
    ELSE IF HasPrefix(method, S_interface_)
    THEN [res |-> [NoAutodetection EXCEPT !.Interface = TrimPrefix(method, S_interface_)],
          err |-> NilErr]
    ELSE IF HasPrefix(method, S_can_reach_)
    THEN [res |-> [NoAutodetection EXCEPT !.CanReach = TrimPrefix(method, S_can_reach_)],
          err |-> NilErr]
    ELSE IF HasPrefix(method, S_skip_interface_)
    THEN [res |-> [NoAutodetection EXCEPT !.SkipInterface = TrimPrefix(method, S_skip_interface_)],
          err |-> NilErr]
    ELSE [res |-> NoAutodetection,
          err |-> [type |-> "errorString",
                   err |-> "unrecognized option for AUTODETECTION_METHOD_SKIP_INTERFACE: ",
                   arg |-> method]]

(***************************************************************************)
(* CNI network configuration documents.                                    *)
(*                                                                         *)
(* json: whether the text is a JSON object once the MTU token is a number. *)
(* form: "conflist" (a name and a non-empty plugins list, each plugin with *)
(* a type), "conf" (a single plugin) or "none".  plugins: the names of the *)
(* plugins.  The other fields are those of the plugin named calico: the    *)
(* token after "mtu" (absent, the placeholder __CNI_MTU__, or a number),   *)
(* the lengths of ipam.ipv4_pools and ipam.ipv6_pools, and the two         *)
(* feature_control flags.                                                  *)
(***************************************************************************)
MtuAbsent == [tok |-> "absent", n |-> 0]
MtuPlaceholder == [tok |-> "__CNI_MTU__", n |-> 0]
MtuNumber(n) == [tok |-> "number", n |-> n]

InvalidDoc ==
    [json |-> "invalid", form |-> "none", plugins |-> {}, mtu |-> MtuAbsent,
     v4pools |-> 0, v6pools |-> 0, floating |-> FALSE, noipam |-> FALSE]

\* The document a variable's value holds; a plain string is no JSON object.
docOf(v) == IF v.kind = "cni" THEN v.doc ELSE InvalidDoc

\* types.NetConf of the calico CNI plugin, as far as the code reads it.
ZeroNetConf ==
    [MTU |-> 0, IPv4Pools |-> 0, IPv6Pools |-> 0, FloatingIPs |-> FALSE, IPAddrsNoIpam |-> FALSE]

\* The two values the loaders put in place of __CNI_MTU__.
SentinelMinusOne == -1
Sentinel12345 == 12345

\* strings.Replace(cniConfig, "__CNI_MTU__", sentinel, -1).
replacePlaceholder(doc, sentinel) ==
    IF doc.mtu.tok = "__CNI_MTU__" THEN [doc EXCEPT !.mtu = MtuNumber(sentinel)] ELSE doc

\* libcni.ConfListFromBytes, then ConfFromBytes and ConfListFromConf:
\* [err, plugins], on a document whose placeholder has been replaced.
parseConfList(doc) ==
    IF doc.json # "ok" \/ doc.mtu.tok = "__CNI_MTU__"
    THEN [err |-> errorString("error parsing configuration"), plugins |-> {}]
    ELSE IF doc.form = "conflist" /\ doc.plugins # {}
    THEN [err |-> NilErr, plugins |-> doc.plugins]
    ELSE IF doc.form = "conf" /\ Cardinality(doc.plugins) = 1
    THEN [err |-> NilErr, plugins |-> doc.plugins]
    ELSE [err |-> errorString("error parsing configuration"), plugins |-> {}]

\* loadCNIConfig of parse_cni.go (and of the first loader of part_001).
loadCNIConfig(doc) == parseConfList(replacePlaceholder(doc, SentinelMinusOne))

\* loadCNIConfig of the handleCNI file.
loadCNIConfig_handleCNI(doc) == parseConfList(replacePlaceholder(doc, Sentinel12345))

\* json.Unmarshal of the calico plugin's bytes into a NetConf: the fields the
\* document holds are set, the others keep their value.
unmarshalNetConf(doc, sentinel, conf) ==
    LET d == replacePlaceholder(doc, sentinel)
    IN  [MTU |-> IF d.mtu.tok = "number" THEN d.mtu.n ELSE conf.MTU,
         IPv4Pools |-> IF d.v4pools > 0 THEN d.v4pools ELSE conf.IPv4Pools,
         IPv6Pools |-> IF d.v6pools > 0 THEN d.v6pools ELSE conf.IPv6Pools,
         FloatingIPs |-> d.floating \/ conf.FloatingIPs,
         IPAddrsNoIpam |-> d.noipam \/ conf.IPAddrsNoIpam]

\* json.Unmarshal(bits, &cni) with cni a map[string]interface{}: the raw
\* text, in which __CNI_MTU__ is no JSON value.
unmarshalRawJSON(v) ==
    LET doc == docOf(v)
    IN  IF doc.json = "ok" /\ doc.mtu.tok # "__CNI_MTU__" THEN NilErr ELSE SyntaxError

(***************************************************************************)
(* The components and the output configuration.                            *)
(***************************************************************************)
HostPortsEnabled == "Enabled"
HostPortsDisabled == "Disabled"

\* operatorv1.CalicoNetworkSpec, as far as the handlers write it.
EmptyCalicoNetwork ==
    [MTU |-> NilPtr, HostPorts |-> NilPtr, NodeAddressAutodetectionV4 |-> NilPtr]

\* config := &Config{}: MTU is Config.MTU of the first parser.go; CalicoNetwork
\* is cfg.Spec.CalicoNetwork of the later handlers, which dereference it.
\* FelixEnvVars is a nil slice.
NewConfig == [MTU |-> NilPtr, CalicoNetwork |-> EmptyCalicoNetwork, FelixEnvVars |-> <<>>]

\* The components getComponents builds.  The pointers the loaders unmarshal
\* into are allocated or nil.
NewComponents(allocated) ==
    [checkedVars |-> {},
     pluginCNIConfig |-> {},
     calicoCNIConfig |-> IF allocated THEN Ptr(ZeroNetConf) ELSE NilPtr,
     cniConfig |-> IF allocated THEN Ptr(ZeroNetConf) ELSE NilPtr]

Result(err, c, cfg) == [err |-> err, c |-> c, cfg |-> cfg]

(***************************************************************************)
(* The field handlers.  A handler is a chain of steps; each step is an     *)
(* operator that takes what the step before it read.                       *)
(***************************************************************************)
\* The components once the variable r was read has been marked.
marked(c, r) == [c EXCEPT !.checkedVars = r.checkedVars]

\* IP
checkIPMethod(ipMethod) ==
    IF ipMethod.err # NilErr
    THEN [err |-> ipMethod.err, checkedVars |-> ipMethod.checkedVars]
    ELSE IF ~ipMethod.ptr.nil /\ ToLower(ipMethod.ptr.v.chars) # S_autodetect
    THEN [err |-> ErrIncompatibleClusterf("unexpected IP value: '%s'. Only 'autodetect' is supported.",
                                          ipMethod.ptr.v),
          checkedVars |-> ipMethod.checkedVars]
    ELSE [err |-> NilErr, checkedVars |-> ipMethod.checkedVars]

\* FELIX_DEFAULTENDPOINTTOHOSTACTION
checkWepAction(cluster, defaultWepAction) ==
    IF defaultWepAction.err # NilErr
    THEN [err |-> defaultWepAction.err, checkedVars |-> defaultWepAction.checkedVars]
    ELSE IF ~defaultWepAction.ptr.nil /\ ToLower(defaultWepAction.ptr.v.chars) # S_accept
    THEN [err |-> ErrIncompatibleClusterf(
                      "unexpected FELIX_DEFAULTENDPOINTTOHOSTACTION: '%s'. Only 'accept' is supported.",
                      defaultWepAction.ptr.v),
          checkedVars |-> defaultWepAction.checkedVars]
    ELSE checkIPMethod(nodeGetEnv(cluster, defaultWepAction.checkedVars, containerCalicoNode, "IP"))

\* CALICO_NETWORKING_BACKEND
checkBackend(cluster, netBackend) ==
    IF netBackend.err # NilErr
    THEN [err |-> netBackend.err, checkedVars |-> netBackend.checkedVars]
    ELSE IF ~netBackend.ptr.nil /\ netBackend.ptr.v # EmptyStr /\ netBackend.ptr.v # Str(S_bird)
    THEN [err |-> ErrIncompatibleCluster("only CALICO_NETWORKING_BACKEND=bird is supported at this time"),
          checkedVars |-> netBackend.checkedVars]
    ELSE checkWepAction(cluster,
                        nodeGetEnv(cluster, netBackend.checkedVars, containerCalicoNode,
                                   "FELIX_DEFAULTENDPOINTTOHOSTACTION"))

\* CALICO_NETWORKING_BACKEND, FELIX_DEFAULTENDPOINTTOHOSTACTION and IP, the
\* opening of every handleNetwork: [err, checkedVars].
checkNetworkEnv(cluster, checkedVars) ==
    checkBackend(cluster,
                 nodeGetEnv(cluster, checkedVars, containerCalicoNode, "CALICO_NETWORKING_BACKEND"))

\* c.calicoCNIConfig.MTU == -1
TemplatedMTU == -1

\* The other cni settings: the end of handleNetwork, and processCNI.
processCNI(conf) ==
    IF conf.IPv4Pools # 0 THEN ErrIncompatibleCluster("cni ipam ranges not suported")
    ELSE IF conf.FloatingIPs THEN ErrIncompatibleCluster("floating IPs not supported")
    ELSE IF conf.IPAddrsNoIpam THEN ErrIncompatibleCluster("IpAddrsNoIpam not supported")
    ELSE NilErr

\* check for portmap plugin.
hostPortsOf(plugins) ==
    IF "portmap" \in plugins THEN HostPortsEnabled ELSE HostPortsDisabled

withHostPorts(cfg, plugins) == [cfg EXCEPT !.CalicoNetwork.HostPorts = Ptr(hostPortsOf(plugins))]

\* The templated MTU, once CNI_MTU has been read: cfg.Spec.CalicoNetwork is
\* replaced by a new CalicoNetworkSpec that holds the MTU only.
templatedMTU(c, cfg, mtu) ==
    IF mtu.err # NilErr THEN Result(mtu.err, marked(c, mtu), cfg)
    ELSE IF mtu.ptr.nil THEN Result(errorString("couldn't detect MTU"), marked(c, mtu), cfg)
    ELSE Result(NilErr, marked(c, mtu),
                [cfg EXCEPT !.CalicoNetwork =
                    [EmptyCalicoNetwork EXCEPT !.MTU = Ptr(mtuFromString(mtu.ptr.v))]])

\* A plausible slip: CNI_MTU read on the explicit path too.
resolveMTU_alwaysEnv(cluster, c, cfg) ==
    templatedMTU(c, cfg, nodeGetEnv(cluster, c.checkedVars, containerInstallCNI, "CNI_MTU"))

\* handleNetwork, from the test of the MTU to the write of cfg's MTU.
resolveMTU(cluster, c, cfg) ==
    IF c.calicoCNIConfig.v.MTU = TemplatedMTU
    THEN templatedMTU(c, cfg, nodeGetEnv(cluster, c.checkedVars, containerInstallCNI, "CNI_MTU"))
    ELSE Result(NilErr, c, [cfg EXCEPT !.CalicoNetwork.MTU = Ptr(c.calicoCNIConfig.v.MTU)])

\* check other cni settings, m being what the MTU step returned.
checkOtherSettings(conf, m) ==
    IF m.err # NilErr THEN m ELSE Result(processCNI(conf), m.c, m.cfg)

\* handleNetwork, from the check for the bandwidth plugin on.
handleNetworkPlugins(cluster, c, cfg) ==
    IF "bandwidth" \in c.pluginCNIConfig
    THEN Result(ErrIncompatibleCluster("operator does not yet support bandwidth"), c, cfg)
    ELSE IF c.calicoCNIConfig.nil
    THEN Result(ErrIncompatibleCluster("operator does not yet support running without calico CNI"), c, cfg)
    ELSE checkOtherSettings(c.calicoCNIConfig.v, resolveMTU(cluster, c, cfg))

\* handleNetwork, from the check for the portmap plugin on.
handleNetworkCNI(cluster, c, cfg) ==
    handleNetworkPlugins(cluster, c, withHostPorts(cfg, c.pluginCNIConfig))

\* handleNetwork, once getAutoDetection has answered tam.
handleNetworkMethod(cluster, c, cfg, tam) ==
    IF tam.err # NilErr THEN Result(tam.err, c, cfg)
    ELSE handleNetworkCNI(cluster, c,
             [cfg EXCEPT !.CalicoNetwork.NodeAddressAutodetectionV4 = Ptr(tam.res)])

\* handleNetwork, once IP_AUTODETECTION_METHOD has been read.
handleNetworkAutodetection(cluster, c, cfg, am) ==
    IF am.err # NilErr THEN Result(am.err, marked(c, am), cfg)
    ELSE IF am.ptr.nil THEN handleNetworkCNI(cluster, marked(c, am), cfg)
    ELSE handleNetworkMethod(cluster, marked(c, am), cfg, getAutoDetection(am.ptr.v.chars))

\* handleNetwork, once the first three variables have been checked.
handleNetworkEnv(cluster, c, cfg, env) ==
    IF env.err # NilErr THEN Result(env.err, marked(c, env), cfg)
    ELSE handleNetworkAutodetection(cluster, c, cfg,
             nodeGetEnv(cluster, env.checkedVars, containerCalicoNode, "IP_AUTODETECTION_METHOD"))

\* handleNetwork(c, cfg), the last one of parser.go.
handleNetwork(cluster, c, cfg) ==
    handleNetworkEnv(cluster, c, cfg, checkNetworkEnv(cluster, c.checkedVars))

\* loadCNI(c) of parse_cni.go, once the conflist is parsed: the calico plugin
\* is unmarshalled into c.calicoCNIConfig (json.Unmarshal's error dropped: a
\* nil pointer stays nil); the map of the other plugins is a local that is
\* not kept.
loadCNIPlugins(c, doc, conflist) ==
    IF conflist.err # NilErr THEN [err |-> conflist.err, c |-> c]
    ELSE IF "calico" \in conflist.plugins /\ ~c.calicoCNIConfig.nil
    THEN [err |-> NilErr,
          c |-> [c EXCEPT !.calicoCNIConfig =
                     Ptr(unmarshalNetConf(doc, SentinelMinusOne, c.calicoCNIConfig.v))]]
    ELSE [err |-> NilErr, c |-> c]

\* loadCNI(c) of parse_cni.go, once CNI_NETWORK_CONFIG has been read.
loadCNIEnv(c, cniConfig) ==
    IF cniConfig.err # NilErr THEN [err |-> cniConfig.err, c |-> marked(c, cniConfig)]
    ELSE IF cniConfig.ptr.nil THEN [err |-> NilErr, c |-> marked(c, cniConfig)]
    ELSE loadCNIPlugins(marked(c, cniConfig), docOf(cniConfig.ptr.v),
                        loadCNIConfig(docOf(cniConfig.ptr.v)))

\* loadCNI(c) of parse_cni.go: [err, c].
loadCNI(cluster, c) ==
    loadCNIEnv(c, nodeGetEnv(cluster, c.checkedVars, containerInstallCNI, "CNI_NETWORK_CONFIG"))

\* loadCNI(c, cfg) of part_001, from the check for the bandwidth plugin on;
\* cfg has its HostPorts.
loadCNI_cfgPlugins(c, cfg, doc, conflist) ==
    IF "bandwidth" \in conflist.plugins
    THEN Result(ErrIncompatibleCluster("operator does not yet support bandwidth"), c, cfg)
    ELSE IF "calico" \notin conflist.plugins
    THEN Result(ErrIncompatibleCluster("operator does not yet support running without calico CNI"),
                c, cfg)
    ELSE IF c.cniConfig.nil THEN Result(InvalidUnmarshalError, c, cfg)
    ELSE Result(NilErr,
                [c EXCEPT !.cniConfig = Ptr(unmarshalNetConf(doc, SentinelMinusOne, c.cniConfig.v))],
                cfg)

\* loadCNI(c, cfg) of part_001, once loadCNIConfig has answered.
loadCNI_cfgList(c, cfg, doc, conflist) ==
    IF conflist.err # NilErr THEN Result(conflist.err, c, cfg)
    ELSE loadCNI_cfgPlugins(c, withHostPorts(cfg, conflist.plugins), doc, conflist)

\* loadCNI(c, cfg) of part_001, once CNI_NETWORK_CONFIG has been read.
loadCNI_cfgEnv(c, cfg, cniConfig) ==
    IF cniConfig.err # NilErr THEN Result(cniConfig.err, marked(c, cniConfig), cfg)
    ELSE IF cniConfig.ptr.nil THEN Result(NilErr, marked(c, cniConfig), cfg)
    ELSE loadCNI_cfgList(marked(c, cniConfig), cfg, docOf(cniConfig.ptr.v),
                         loadCNIConfig(docOf(cniConfig.ptr.v)))

\* loadCNI(c, cfg) of part_001.
loadCNI_cfg(cluster, c, cfg) ==
    loadCNI_cfgEnv(c, cfg,
                   nodeGetEnv(cluster, c.checkedVars, containerInstallCNI, "CNI_NETWORK_CONFIG"))

\* What handleCNI returns: [err, c, cfg, calicoConf], calicoConf being the
\* local the calico plugin is unmarshalled into.
ResultCNI(err, c, cfg, conf) == [err |-> err, c |-> c, cfg |-> cfg, calicoConf |-> conf]

\* handleCNI, once the calico plugin is unmarshalled into calicoConf.
handleCNIConf(c, cfg, conf) == ResultCNI(processCNI(conf), c, cfg, Ptr(conf))

\* handleCNI, from the check for the bandwidth plugin on; cfg has its
\* HostPorts.
handleCNIPlugins(c, cfg, doc, conflist) ==
    IF "bandwidth" \in conflist.plugins
    THEN ResultCNI(ErrIncompatibleCluster("operator does not yet support bandwidth"), c, cfg, NilPtr)
    ELSE IF "calico" \notin conflist.plugins
    THEN ResultCNI(ErrIncompatibleCluster("cni missing calico conf"), c, cfg, NilPtr)
    ELSE handleCNIConf(c, cfg, unmarshalNetConf(doc, Sentinel12345, ZeroNetConf))

\* handleCNI, once loadCNIConfig has answered.
handleCNIList(c, cfg, doc, conflist) ==
    IF conflist.err # NilErr THEN ResultCNI(conflist.err, c, cfg, NilPtr)
    ELSE handleCNIPlugins(c, withHostPorts(cfg, conflist.plugins), doc, conflist)

\* handleCNI, once CNI_NETWORK_CONFIG has been read.
handleCNIEnv(c, cfg, cniConfig) ==
    IF cniConfig.err # NilErr THEN ResultCNI(cniConfig.err, marked(c, cniConfig), cfg, NilPtr)
    ELSE IF cniConfig.ptr.nil THEN ResultCNI(NilErr, marked(c, cniConfig), cfg, NilPtr)
    ELSE handleCNIList(marked(c, cniConfig), cfg, docOf(cniConfig.ptr.v),
                       loadCNIConfig_handleCNI(docOf(cniConfig.ptr.v)))

\* handleCNI(c, cfg) of part_001.
handleCNI(cluster, c, cfg) ==
    handleCNIEnv(c, cfg,
                 nodeGetEnv(cluster, c.checkedVars, containerInstallCNI, "CNI_NETWORK_CONFIG"))

\* (c *components) handleNetwork, once CNI_MTU has been read.
components_handleNetworkMTU(c, cfg, mtu) ==
    IF mtu.err # NilErr THEN Result(mtu.err, marked(c, mtu), cfg)
    ELSE IF mtu.ptr.nil THEN Result(NilErr, marked(c, mtu), cfg)
    ELSE Result(NilErr, marked(c, mtu), [cfg EXCEPT !.MTU = Ptr(mtuFromString(mtu.ptr.v))])

\* (c *components) handleNetwork, once CNI_NETWORK_CONFIG has been read.
components_handleNetworkCNI(cluster, c, cfg, cniConfig) ==
    IF cniConfig.err # NilErr THEN Result(cniConfig.err, marked(c, cniConfig), cfg)
    ELSE IF ~cniConfig.ptr.nil /\ unmarshalRawJSON(cniConfig.ptr.v) # NilErr
    THEN Result(unmarshalRawJSON(cniConfig.ptr.v), marked(c, cniConfig), cfg)
    ELSE components_handleNetworkMTU(marked(c, cniConfig), cfg,
             nodeGetEnv(cluster, cniConfig.checkedVars, containerInstallCNI, "CNI_MTU"))

\* (c *components) handleNetwork, once the first three variables have been
\* checked.
components_handleNetworkEnv(cluster, c, cfg, env) ==
    IF env.err # NilErr THEN Result(env.err, marked(c, env), cfg)
    ELSE components_handleNetworkCNI(cluster, c, cfg,
             nodeGetEnv(cluster, env.checkedVars, containerInstallCNI, "CNI_NETWORK_CONFIG"))

\* (c *components) handleNetwork(cfg) of the first parser.go.
components_handleNetwork(cluster, c, cfg) ==
    components_handleNetworkEnv(cluster, c, cfg, checkNetworkEnv(cluster, c.checkedVars))

\* mark other variables as ignored.
ignoreOthers(checkedVars) ==
    ignoreEnv(ignoreEnv(ignoreEnv(ignoreEnv(checkedVars,
        containerCalicoNode, "WAIT_FOR_DATASTORE"),
        containerCalicoNode, "CLUSTER_TYPE"),
        containerCalicoNode, "NODENAME"),
        containerCalicoNode, "CALICO_DISABLE_FILE_LOGGING")

\* (c *components) handleCore, once DATASTORE_TYPE has been read.
components_handleCoreType(c, cfg, dsType) ==
    IF dsType.err # NilErr THEN Result(dsType.err, marked(c, dsType), cfg)
    ELSE IF ~dsType.ptr.nil /\ dsType.ptr.v # Str(S_kubernetes)
    THEN Result(ErrIncompatibleCluster("only CALICO_NETWORKING_BACKEND=bird is supported at this time"),
                marked(c, dsType), cfg)
    ELSE Result(NilErr, [c EXCEPT !.checkedVars = ignoreOthers(dsType.checkedVars)], cfg)

\* (c *components) handleCore(*Config).
components_handleCore(cluster, c, cfg) ==
    components_handleCoreType(c, cfg,
        nodeGetEnv(cluster, c.checkedVars, containerCalicoNode, "DATASTORE_TYPE"))

(***************************************************************************)
(* No conversion in progress.                                              *)
(***************************************************************************)
NoConfigMap == [get |-> "notfound", name |-> "", Data |-> <<>>]
NoCluster ==
    [node |-> "notfound", kc |-> "notfound",
     spec |-> [Containers |-> <<>>, InitContainers |-> <<>>], cm |-> NoConfigMap]

ConvIdle ==
    /\ client = NoCluster
    /\ comps = NewComponents(FALSE)
    /\ config = NewConfig
    /\ calicoConf = NilPtr
    /\ pc = "idle"
    /\ log = <<>>
    /\ errs = <<>>
    /\ ret = NotCalled

(***************************************************************************)
(* Specification SpecCidr: one call of cidrWithinCidr on a pair of         *)
(* literals.                                                               *)
(***************************************************************************)
MergeIdle ==
    /\ ippools = NilPools
    /\ ippools0 = NilPools
    /\ platform = <<>>
    /\ mergeRet = NotCalled

CidrIdle ==
    /\ cidrIn = <<T_bad_text, T_bad_text>>
    /\ cidrOut = NotCalled

\* No call made on its own yet.
NoCall == [op |-> "none"]

UnitIdle ==
    /\ call = NoCall
    /\ out = NotCalled
    /\ gets = <<>>

InitCidr ==
    /\ cidrIn \in CidrTexts \X CidrTexts
    /\ cidrOut = NotCalled
    /\ MergeIdle
    /\ ConvIdle
    /\ UnitIdle

CallCidrWithinCidr ==
    /\ cidrOut = NotCalled
    /\ cidrOut' = [type |-> "bool", val |-> cidrWithinCidr(cidrIn[1], cidrIn[2])]
    /\ UNCHANGED <<cidrIn, mergeVars, convVars, unitVars>>

NextCidr == CallCidrWithinCidr

SpecCidr == InitCidr /\ [][NextCidr]_vars

(***************************************************************************)
(* Specification SpecMerge: one call of MergePlatformPodCIDRs.             *)
(***************************************************************************)
PoolLists == {NilPools} \cup {Pools(l) : l \in SeqsUpTo([CIDR : MergeTexts], MaxPools)}

InitMerge ==
    /\ ippools \in PoolLists
    /\ ippools0 = ippools
    /\ platform \in SeqsUpTo(MergeTexts, MaxPlatform)
    /\ mergeRet = NotCalled
    /\ CidrIdle
    /\ ConvIdle
    /\ UnitIdle

CallMerge ==
    /\ mergeRet = NotCalled
    /\ LET r == MergePlatformPodCIDRs(ippools, platform)
       IN  /\ ippools' = r.pools
           /\ mergeRet' = r.err
    /\ UNCHANGED <<ippools0, platform, cidrVars, convVars, unitVars>>

NextMerge == CallMerge

SpecMerge == InitMerge /\ [][NextMerge]_vars

(***************************************************************************)
(* Specification SpecMergeTwice: MergePlatformPodCIDRs is called again on  *)
(* the Installation as the first call left it, with the same platform      *)
(* list.                                                                   *)
(***************************************************************************)
\* The literals of the two calls: a v4 CIDR, one within it that has host bits
\* set, a v6 CIDR and one that does not parse.
TwiceTexts == {T_10_8, T_10_1_2_3_16, T_fd00_1234_32, T_bad_33}

InitMergeTwice ==
    /\ ippools \in {NilPools} \cup {Pools(l) : l \in SeqsUpTo([CIDR : TwiceTexts], MaxPools)}
    /\ ippools0 = ippools
    /\ platform \in SeqsUpTo(TwiceTexts, MaxPlatform)
    /\ mergeRet = NotCalled
    /\ CidrIdle
    /\ ConvIdle
    /\ UnitIdle

CallMergeAgain ==
    /\ mergeRet # NotCalled
    /\ call = NoCall
    /\ LET r == MergePlatformPodCIDRs(ippools, platform)
       IN  /\ ippools' = r.pools
           /\ out' = [err |-> r.err]
    /\ call' = [op |-> "MergePlatformPodCIDRs", pools |-> ippools]
    /\ UNCHANGED <<ippools0, platform, mergeRet, gets, cidrVars, convVars>>

NextMergeTwice == CallMerge \/ CallMergeAgain

SpecMergeTwice == InitMergeTwice /\ [][NextMergeTwice]_vars

(***************************************************************************)
(* Specification SpecCNI: the CNI loaders and handlers on one snapshot.    *)
(* From "ready" either loadCNI(c) of parse_cni.go runs and then the last   *)
(* handleNetwork of parser.go, or loadCNI(c, cfg) of part_001, or          *)
(* handleCNI of part_001.                                                  *)
(***************************************************************************)
ExplicitMTUs == {1500, 12345}
MtuTokens == {MtuAbsent, MtuPlaceholder} \cup {MtuNumber(n) : n \in ExplicitMTUs}
PluginNames == {"calico", "portmap", "bandwidth"}

Doc(form, plugins, mtu, v4pools, v6pools, floating, noipam) ==
    [json |-> "ok", form |-> form, plugins |-> plugins, mtu |-> mtu,
     v4pools |-> v4pools, v6pools |-> v6pools, floating |-> floating, noipam |-> noipam]

\* The plugin lists a document can hold: a conflist of one to three plugins,
\* or a single plugin.
DocShapes ==
    {<<"conflist", P>> : P \in (SUBSET PluginNames) \ {{}}}
        \cup {<<"conf", {n}>> : n \in PluginNames}

CalicoDocs ==
    {Doc(sh[1], sh[2], m, v4, v6, fl, ni) :
        sh \in {x \in DocShapes : "calico" \in x[2]}, m \in MtuTokens,
        v4 \in {0, 1}, v6 \in {0, 1}, fl \in BOOLEAN, ni \in BOOLEAN}

OtherDocs ==
    {Doc(sh[1], sh[2], MtuAbsent, 0, 0, FALSE, FALSE) :
        sh \in {x \in DocShapes : "calico" \notin x[2]}}

\* InvalidDoc is no JSON; the last one is a JSON object without a plugin.
CNIDocs == CalicoDocs \cup OtherDocs \cup {InvalidDoc, Doc("none", {}, MtuAbsent, 0, 0, FALSE, FALSE)}

InstallCNIEnvs ==
    {cnc \o mtu :
        cnc \in {<<>>, <<Literal("CNI_NETWORK_CONFIG", S_bar)>>}
                    \cup {<<EnvVar("CNI_NETWORK_CONFIG", CNIText(d), NoValueFrom)>> : d \in CNIDocs},
        mtu \in {<<>>, <<Literal("CNI_MTU", S_1440)>>, <<Literal("CNI_MTU", S_9000)>>,
                  <<Literal("CNI_MTU", S_bar)>>, <<Literal("CNI_MTU", S_0)>>,
                  <<Literal("CNI_MTU", S_4294968736)>>}}

NodeEnvsCNI ==
    {<<>>,
     <<Literal("CALICO_NETWORKING_BACKEND", S_bird),
       Literal("IP_AUTODETECTION_METHOD", S_interface_ \o S_eth0)>>,
     <<Literal("CALICO_NETWORKING_BACKEND", S_vxlan)>>,
     <<Literal("IP_AUTODETECTION_METHOD", S_bar)>>}

\* calico-node is a container of the daemonset, install-cni an init container.
Cluster(nodeEnv, cniEnv, cm) ==
    [node |-> "ok", kc |-> "ok",
     spec |-> [Containers |-> <<Container(containerCalicoNode, nodeEnv)>>,
               InitContainers |-> <<Container(containerInstallCNI, cniEnv)>>],
     cm |-> cm]

InitCNI ==
    /\ client \in {Cluster(ne, ie, NoConfigMap) : ne \in NodeEnvsCNI, ie \in InstallCNIEnvs}
    /\ comps \in {NewComponents(allocated) : allocated \in BOOLEAN}
    /\ config = NewConfig
    /\ calicoConf = NilPtr
    /\ pc = "ready"
    /\ log = <<>>
    /\ errs = <<>>
    /\ ret = NotCalled
    /\ CidrIdle
    /\ MergeIdle
    /\ UnitIdle

\* Where the conversion stands once a handler has returned err.
after(err, next) ==
    IF err = Panic THEN "panicked" ELSE IF err # NilErr THEN "failed" ELSE next

RunLoadCNI ==
    /\ pc = "ready"
    /\ LET r == loadCNI(client, comps)
       IN  /\ comps' = r.c
           /\ log' = Append(log, "loadCNI")
           /\ errs' = Append(errs, r.err)
           /\ pc' = after(r.err, "loaded")
    /\ UNCHANGED <<client, config, calicoConf, ret, cidrVars, mergeVars, unitVars>>

RunHandleNetwork ==
    /\ pc = "loaded"
    /\ LET r == handleNetwork(client, comps, config)
       IN  /\ comps' = r.c
           /\ config' = r.cfg
           /\ log' = Append(log, "handleNetwork")
           /\ errs' = Append(errs, r.err)
           /\ pc' = after(r.err, "done")
    /\ UNCHANGED <<client, calicoConf, ret, cidrVars, mergeVars, unitVars>>

RunLoadCNIWithConfig ==
    /\ pc = "ready"
    /\ LET r == loadCNI_cfg(client, comps, config)
       IN  /\ comps' = r.c
           /\ config' = r.cfg
           /\ log' = Append(log, "loadCNI(c, cfg)")
           /\ errs' = Append(errs, r.err)
           /\ pc' = after(r.err, "done")
    /\ UNCHANGED <<client, calicoConf, ret, cidrVars, mergeVars, unitVars>>

RunHandleCNI ==
    /\ pc = "ready"
    /\ LET r == handleCNI(client, comps, config)
       IN  /\ comps' = r.c
           /\ config' = r.cfg
           /\ calicoConf' = r.calicoConf
           /\ log' = Append(log, "handleCNI")
           /\ errs' = Append(errs, r.err)
           /\ pc' = after(r.err, "done")
    /\ UNCHANGED <<client, ret, cidrVars, mergeVars, unitVars>>

NextCNI == RunLoadCNI \/ RunHandleNetwork \/ RunLoadCNIWithConfig \/ RunHandleCNI

SpecCNI == InitCNI /\ [][NextCNI]_vars

(***************************************************************************)
(* Specification Spec: GetExistingConfig of the first parser.go on one     *)
(* snapshot, handler by handler.                                           *)
(***************************************************************************)
\* The most variables the two containers of a snapshot carry together.
MaxEnv == 3

S_calico_config == "calico-config"
S_calico_backend == "calico_backend"
\* A key the ConfigMap does not hold.
S_no_such_key == "no_such_key"

\* Each variable is absent or has one of its values.
OneOf(name, values) == {<<>>} \cup {<<EnvVar(name, v[1], v[2])>> : v \in values}
Lit(chars) == <<Str(chars), NoValueFrom>>

NodeEnvs ==
    {a \o b \o d \o e \o f \o g \o h :
        a \in OneOf("CALICO_NETWORKING_BACKEND",
                    {Lit(S_bird), Lit(S_vxlan), Lit(<<>>),
                     <<EmptyStr, ConfigMapKeyRef(S_calico_config, S_calico_backend)>>,
                     <<EmptyStr, ConfigMapKeyRef(S_calico_config, S_no_such_key)>>,
                     <<EmptyStr, SecretKeyRef>>}),
        b \in OneOf("FELIX_DEFAULTENDPOINTTOHOSTACTION", {Lit(S_ACCEPT), Lit(S_Drop)}),
        d \in OneOf("IP", {Lit(S_Autodetect), Lit(S_none)}),
        e \in OneOf("DATASTORE_TYPE", {Lit(S_kubernetes), Lit(S_etcdv3)}),
        f \in OneOf("NODENAME", {<<EmptyStr, FieldRef>>}),
        g \in OneOf("FOO", {Lit(S_bar)}),
        h \in OneOf("FELIX_LOGSEVERITYSCREEN", {Lit(S_bar)})}

ExplicitDoc == Doc("conflist", {"calico", "portmap"}, MtuNumber(1500), 0, 0, FALSE, FALSE)
TemplatedDoc == Doc("conflist", {"calico", "portmap"}, MtuPlaceholder, 0, 0, FALSE, FALSE)

CNIEnvs ==
    {a \o b \o g :
        a \in OneOf("CNI_NETWORK_CONFIG",
                    {<<CNIText(ExplicitDoc), NoValueFrom>>, <<CNIText(TemplatedDoc), NoValueFrom>>,
                     Lit(S_bar)}),
        b \in OneOf("CNI_MTU", {Lit(S_1440), Lit(S_bar)}),
        g \in OneOf("FOO", {Lit(S_bar)})}

UsesConfigMap(env) == \E i \in 1..Len(env) : env[i].ValueFrom.kind = "configMapKeyRef"

CalicoConfigMap(get) ==
    [get |-> get, name |-> S_calico_config, Data |-> <<<<S_calico_backend, Str(S_bird)>>>>]

\* install-cni is an init container of the daemonset, or a regular one, or
\* the daemonset has none.
Workload(nodeEnv, cniEnv, place) ==
    [Containers |->
        <<Container(containerCalicoNode, nodeEnv)>>
            \o (IF place = "regular" THEN <<Container(containerInstallCNI, cniEnv)>> ELSE <<>>),
     InitContainers |->
        IF place = "init" THEN <<Container(containerInstallCNI, cniEnv)>> ELSE <<>>]

\* A snapshot the model starts from: at most MaxEnv variables; no variables
\* on a container the daemonset does not have; the ConfigMap is there unless
\* a variable refers to it.
Bounded(ne, ie, place, get) ==
    /\ Len(ne) + Len(ie) <= MaxEnv
    /\ place = "missing" => ie = <<>>
    /\ get # "ok" => UsesConfigMap(ne)

Snapshots ==
    {[node |-> "ok", kc |-> "ok", spec |-> Workload(t[1], t[2], t[3]), cm |-> CalicoConfigMap(t[4])] :
        t \in {u \in {x \in NodeEnvs : Len(x) <= MaxEnv}
                        \X {x \in CNIEnvs : Len(x) <= MaxEnv}
                        \X {"init", "regular", "missing"}
                        \X {"ok", "notfound", "error"} :
                  Bounded(u[1], u[2], u[3], u[4])}}

\* The workloads client.Get does not find, or fails to read.
Unfetched ==
    {[node |-> n, kc |-> k, spec |-> Workload(<<>>, <<>>, "init"), cm |-> CalicoConfigMap("ok")] :
        n \in {"ok", "notfound", "error"}, k \in {"ok", "notfound", "error"}}

Init ==
    /\ client \in Snapshots \cup Unfetched
    /\ comps = NewComponents(FALSE)
    /\ config = NewConfig
    /\ calicoConf = NilPtr
    /\ pc = "start"
    /\ log = <<>>
    /\ errs = <<>>
    /\ ret = NotCalled
    /\ CidrIdle
    /\ MergeIdle
    /\ UnitIdle

\* client.Get of a workload: the error it returns.
clientGet(fetched) ==
    IF fetched = "notfound" THEN StatusError("NotFound")
    ELSE IF fetched = "error" THEN StatusError("InternalError")
    ELSE NilErr

\* A plausible slip: the components are kept in a package-level variable and
\* a later run works on the ones of the run before.
getComponents_kept(cluster) ==
    IF clientGet(cluster.node) # NilErr THEN [comps |-> NilPtr, err |-> clientGet(cluster.node)]
    ELSE IF clientGet(cluster.kc) # NilErr THEN [comps |-> NilPtr, err |-> clientGet(cluster.kc)]
    ELSE [comps |-> Ptr(comps), err |-> NilErr]

\* getComponents: calico-node, then calico-kube-controllers: [comps, err].
getComponents(cluster) ==
    IF clientGet(cluster.node) # NilErr THEN [comps |-> NilPtr, err |-> clientGet(cluster.node)]
    ELSE IF clientGet(cluster.kc) # NilErr THEN [comps |-> NilPtr, err |-> clientGet(cluster.kc)]
    ELSE [comps |-> Ptr(NewComponents(FALSE)), err |-> NilErr]

\* kerrors.IsNotFound
IsNotFound(err) == err.type = "StatusError" /\ err.reason = "NotFound"

\* A plausible slip: the handler's error is assigned and the run goes on.
nextStep_goesOn(err, next) == next

\* if err := comps.handle...(config); err != nil { return nil, err }
nextStep(err, next) ==
    IF err = Panic THEN "panicked" ELSE IF err # NilErr THEN "returned" ELSE next

GetComponents ==
    /\ pc = "start"
    /\ LET r == getComponents(client)
       IN  IF r.err # NilErr
           THEN /\ ret' = [config |-> NilPtr,
                           err |-> IF IsNotFound(r.err) THEN NilErr ELSE r.err]
                /\ pc' = "returned"
                /\ UNCHANGED comps
           ELSE /\ comps' = r.comps.v
                /\ pc' = "handleNetwork"
                /\ UNCHANGED ret
    /\ UNCHANGED <<client, config, calicoConf, log, errs, cidrVars, mergeVars, unitVars>>

HandleNetwork ==
    /\ pc = "handleNetwork"
    /\ LET r == components_handleNetwork(client, comps, config)
       IN  /\ comps' = r.c
           /\ config' = r.cfg
           /\ log' = Append(log, "handleNetwork")
           /\ errs' = Append(errs, r.err)
           /\ pc' = nextStep(r.err, "handleCore")
           /\ ret' = IF r.err \notin {NilErr, Panic}
                     THEN [config |-> NilPtr, err |-> r.err] ELSE ret
    /\ UNCHANGED <<client, calicoConf, cidrVars, mergeVars, unitVars>>

HandleCore ==
    /\ pc = "handleCore"
    /\ LET r == components_handleCore(client, comps, config)
       IN  /\ comps' = r.c
           /\ config' = r.cfg
           /\ log' = Append(log, "handleCore")
           /\ errs' = Append(errs, r.err)
           /\ pc' = nextStep(r.err, "returned")
           /\ ret' = IF r.err = Panic THEN ret
                     ELSE IF r.err # NilErr THEN [config |-> NilPtr, err |-> r.err]
                     ELSE [config |-> Ptr(r.cfg), err |-> NilErr]
    /\ UNCHANGED <<client, calicoConf, cidrVars, mergeVars, unitVars>>

Next == GetComponents \/ HandleNetwork \/ HandleCore

Spec == Init /\ [][Next]_vars

(***************************************************************************)
(* Specification SpecTwice: GetExistingConfig is called a second time on   *)
(* the snapshot once the first call has returned.  The first call's        *)
(* components stay where they are; the second call does not receive them.  *)
(***************************************************************************)
\* The caller keeps what the first call returned and calls again: config :=
\* &Config{} anew, then getComponents.
CallAgain ==
    /\ pc = "returned"
    /\ call = NoCall
    /\ call' = [op |-> "GetExistingConfig", first |-> ret]
    /\ config' = NewConfig
    /\ ret' = NotCalled
    /\ log' = <<>>
    /\ errs' = <<>>
    /\ pc' = "start"
    /\ UNCHANGED <<client, comps, calicoConf, out, gets, cidrVars, mergeVars>>

NextTwice == GetComponents \/ HandleNetwork \/ HandleCore \/ CallAgain

SpecTwice == Init /\ [][NextTwice]_vars

(***************************************************************************)
(* Specification SpecEnv: the RaemonSet on its own.  getEnv, ignoreEnv and *)
(* uncheckedVars are called on one snapshot, in any order, MaxCalls times  *)
(* at most.                                                                *)
(***************************************************************************)
MaxCalls == 2

S_kubeadm_config == "kubeadm-config"

\* What a variable of the snapshot holds: a literal, the empty literal, a
\* key of the ConfigMap, a key the ConfigMap does not hold, a key of a
\* ConfigMap that does not exist, or one of the other indirections.
EnvValues ==
    {Lit(S_autodetect), Lit(<<>>),
     <<EmptyStr, ConfigMapKeyRef(S_calico_config, S_calico_backend)>>,
     <<EmptyStr, ConfigMapKeyRef(S_calico_config, S_no_such_key)>>,
     <<EmptyStr, ConfigMapKeyRef(S_kubeadm_config, S_calico_backend)>>,
     <<EmptyStr, SecretKeyRef>>, <<EmptyStr, FieldRef>>, <<EmptyStr, ResourceFieldRef>>}

EnvNodeEnvs == {a \o g : a \in OneOf("IP", EnvValues), g \in OneOf("FOO", {Lit(S_bar)})}
EnvCNIEnvs == {b \o g : b \in OneOf("CNI_MTU", {Lit(S_1440)}), g \in OneOf("FOO", {Lit(S_bar)})}

EnvSnapshots ==
    {[node |-> "ok", kc |-> "ok", spec |-> Workload(t[1], t[2], t[3]), cm |-> CalicoConfigMap(t[4])] :
        t \in {u \in EnvNodeEnvs \X EnvCNIEnvs \X {"init", "regular", "missing"}
                        \X {"ok", "notfound", "error"} :
                  /\ u[3] = "missing" => u[2] = <<>>
                  /\ u[4] # "ok" => UsesConfigMap(u[1])}}

CalledContainers == {containerCalicoNode, containerInstallCNI}
CalledKeys == {"IP", "CNI_MTU", "FOO"}

InitEnv ==
    /\ client \in EnvSnapshots
    /\ comps = NewComponents(FALSE)
    /\ config = NewConfig
    /\ calicoConf = NilPtr
    /\ pc = "unit"
    /\ log = <<>>
    /\ errs = <<>>
    /\ ret = NotCalled
    /\ UnitIdle
    /\ CidrIdle
    /\ MergeIdle

\* r.getEnv(ctx, client, container, key) has returned r.
getEnvReturns(container, key, r) ==
    /\ comps' = marked(comps, r)
    /\ call' = [op |-> "getEnv", container |-> container, key |-> key]
    /\ out' = [ptr |-> r.ptr, err |-> r.err, gets |-> r.gets]
    /\ gets' = gets \o r.gets
    /\ log' = Append(log, "getEnv")
    /\ pc' = IF r.err = Panic THEN "panicked" ELSE pc

CallGetEnv ==
    /\ pc = "unit"
    /\ Len(log) < MaxCalls
    /\ \E container \in CalledContainers, key \in CalledKeys :
           getEnvReturns(container, key, nodeGetEnv(client, comps.checkedVars, container, key))
    /\ UNCHANGED <<client, config, calicoConf, errs, ret, cidrVars, mergeVars>>

CallIgnoreEnv ==
    /\ pc = "unit"
    /\ Len(log) < MaxCalls
    /\ \E container \in CalledContainers, key \in CalledKeys :
           /\ comps' = [comps EXCEPT !.checkedVars = ignoreEnv(@, container, key)]
           /\ call' = [op |-> "ignoreEnv", container |-> container, key |-> key]
    /\ out' = NotCalled
    /\ log' = Append(log, "ignoreEnv")
    /\ UNCHANGED <<client, config, calicoConf, pc, errs, ret, gets, cidrVars, mergeVars>>

CallUncheckedVars ==
    /\ pc = "unit"
    /\ Len(log) < MaxCalls
    /\ call' = [op |-> "uncheckedVars"]
    /\ out' = [unchecked |-> uncheckedVars(client, comps.checkedVars)]
    /\ log' = Append(log, "uncheckedVars")
    /\ UNCHANGED <<client, comps, config, calicoConf, pc, errs, ret, gets, cidrVars, mergeVars>>

NextEnv == CallGetEnv \/ CallIgnoreEnv \/ CallUncheckedVars

SpecEnv == InitEnv /\ [][NextEnv]_vars

(***************************************************************************)
(* Specification SpecAuto: one call of getAutoDetection on a method        *)
(* string: one of the prefixes, or something else, followed by at most     *)
(* MaxSuffix characters.                                                   *)
(***************************************************************************)
MaxSuffix == 2

S_Interface_ == <<"I", "n", "t", "e", "r", "f", "a", "c", "e", "=">>
S_interface == <<"i", "n", "t", "e", "r", "f", "a", "c", "e">>

MethodPrefixes ==
    {<<>>, S_first_found, S_interface_, S_can_reach_, S_skip_interface_,
     S_Interface_, S_interface, S_bar}
Methods == {p \o x : p \in MethodPrefixes, x \in SeqsUpTo({"e", "0", "="}, MaxSuffix)}

InitAuto ==
    /\ call \in {[op |-> "getAutoDetection", method |-> m] : m \in Methods}
    /\ out = NotCalled
    /\ gets = <<>>
    /\ ConvIdle
    /\ CidrIdle
    /\ MergeIdle

CallGetAutoDetection ==
    /\ out = NotCalled
    /\ out' = getAutoDetection(call.method)
    /\ UNCHANGED <<call, gets, convVars, cidrVars, mergeVars>>

NextAuto == CallGetAutoDetection

SpecAuto == InitAuto /\ [][NextAuto]_vars

(***************************************************************************)
(* Platform pod CIDR discovery: package kubeadm (parse_cni.go), package    *)
(* openshift (part_002) and handleCanal (canal.go).  The Installation is   *)
(* its Spec.CalicoNetwork pointer: nil, or a pointer to the IPPools.       *)
(***************************************************************************)
\* What a discovery path returns: its error, Spec.CalicoNetwork afterwards,
\* and the list it handed to MergePlatformPodCIDRs with what the merge
\* returned (NotCalled where the merge was not reached).
discovered(err, net, handed, mergeErr) ==
    [err |-> err, net |-> net, handed |-> handed, mergeErr |-> mergeErr]

\* fmt.Errorf(format, err)
Errorf(format, err) == [type |-> "errorString", err |-> format, cause |-> err]

\* utils.MergePlatformPodCIDRs(i, platformCIDRs) on the Installation; it reads
\* i.Spec.CalicoNetwork.IPPools through the pointer.
mergeInto(net, platformCIDRs) ==
    IF net.nil THEN discovered(Panic, net, platformCIDRs, Panic)
    ELSE LET r == MergePlatformPodCIDRs(net.v, platformCIDRs)
         IN  discovered(r.err, Ptr(r.pools), platformCIDRs, r.err)

\* The values of kubeadmConfig.Data under `podSubnet: (.*)`: a value is the
\* nil pointer where no line of it matches, else the pieces that
\* strings.Split(line[1], ",") gives.  The range over the map breaks at the
\* first value that matches, and a Go map is ranged in no specified order:
\* any matching value can be that one.
submatches(data) ==
    IF \A v \in data : v.nil THEN {NilPtr} ELSE {v \in data : ~v.nil}

\* The loop over the pieces: the first one net.ParseCIDR rejects ends it.
RECURSIVE parsePieces(_, _, _)
parsePieces(pieces, k, foundCIDRs) ==
    IF k > Len(pieces) THEN [cidrs |-> foundCIDRs, err |-> NilErr]
    ELSE IF ParseCIDR(pieces[k]).err # NilErr
    THEN [cidrs |-> <<>>, err |-> ParseCIDR(pieces[k]).err]
    ELSE parsePieces(pieces, k + 1, Append(foundCIDRs, pieces[k]))

\* extractKubeadmCIDRs(kubeadmConfig), line being the submatch the loop
\* stopped at: [cidrs, err].  kubeadmConfig.Data is read through the pointer.
extractKubeadmCIDRs(kubeadmConfig, line) ==
    IF kubeadmConfig.nil THEN [cidrs |-> <<>>, err |-> Panic]
    ELSE IF line.nil THEN [cidrs |-> <<>>, err |-> NilErr]
    ELSE parsePieces(line.v, 1, <<>>)

\* kubeadm.Convert after extractKubeadmCIDRs returned x.
kubeadm_ConvertMerge(net, x) ==
    IF x.err # NilErr THEN discovered(x.err, net, <<>>, NotCalled)
    ELSE mergeInto(net, x.cidrs)

\* kubeadm.Convert(ctx, client, i): get is what client.Get of kubeadm-config
\* answers and data its Data.
kubeadm_Convert(get, data, line, net) ==
    IF clientGet(get) # NilErr /\ ~IsNotFound(clientGet(get))
    THEN discovered(Errorf("Unable to read kubeadm config map: %s", clientGet(get)),
                    net, <<>>, NotCalled)
    ELSE kubeadm_ConvertMerge(net,
             extractKubeadmCIDRs(IF clientGet(get) # NilErr THEN NilPtr ELSE Ptr(data), line))

\* openshift.Convert(ctx, client, i): clusterNetwork is Spec.ClusterNetwork
\* of the Network named "cluster".
openshift_Convert(get, clusterNetwork, net) ==
    IF clientGet(get) # NilErr
    THEN discovered(Errorf("Unable to read openshift network configuration: %s",
                                    clientGet(get)), net, <<>>, NotCalled)
    ELSE mergeInto(IF net.nil THEN Ptr(NilPools) ELSE net,
                   [k \in 1..Len(clusterNetwork) |-> clusterNetwork[k].CIDR])

\* handleCanal(c, install): volume is what the flannel-cfg volume of the node
\* DaemonSet is, get the answer of client.Get for its ConfigMap, and netconf
\* the net-conf.json of that ConfigMap as json.Unmarshal reads it.
handleCanal(volume, get, netconf, net) ==
    IF volume = "none" THEN discovered(NilErr, net, <<>>, NotCalled)
    ELSE IF volume # "configMap"
    THEN discovered(ErrIncompatibleCluster("canal must load config via configmap"),
                    net, <<>>, NotCalled)
    ELSE IF clientGet(get) # NilErr THEN discovered(clientGet(get), net, <<>>, NotCalled)
    ELSE IF netconf.json # "ok"
    THEN discovered(Errorf("failed to parse '%s': %v", SyntaxError), net, <<>>, NotCalled)
    ELSE IF netconf.Backend \notin {"absent", "vxlan"}
    THEN discovered(ErrIncompatibleCluster("only backend vxlan supported"), net, <<>>, NotCalled)
    ELSE IF net.nil THEN discovered(Panic, net, <<>>, NotCalled)
    ELSE discovered(NilErr, Ptr(Pools(<<[CIDR |-> netconf.Network]>>)), <<>>, NotCalled)

(***************************************************************************)
(* Specification SpecPlatform: one call of a platform discovery path on an *)
(* Installation.                                                           *)
(***************************************************************************)
\* Spec.CalicoNetwork of the Installation before the call.
PlatformNets ==
    {NilPtr, Ptr(NilPools), Ptr(Pools(<<>>)),
     Ptr(Pools(<<[CIDR |-> T_10_1_16]>>)), Ptr(Pools(<<[CIDR |-> T_192_168_16]>>))}

\* The pieces of a podSubnet line: a v4 CIDR, a v6 CIDR, and the empty piece.
KubeadmPieces == {T_10_8, T_fd00_1234_32, T_bad_text}
KubeadmValues ==
    {NilPtr} \cup {Ptr(l) : l \in SeqsUpTo(KubeadmPieces, MaxPlatform) \ {<<>>}}
\* kubeadmConfig.Data with at most two values.
KubeadmData ==
    {{}} \cup {{a, b} : a \in KubeadmValues, b \in KubeadmValues}

FlannelNetConfs ==
    {[json |-> "bad"]}
        \cup {[json |-> "ok", Network |-> n, Backend |-> b] :
                 n \in MergeTexts \cup {T_bad_text}, b \in {"absent", "vxlan", "host-gw"}}

PlatformCalls ==
    {[op |-> "kubeadm.Convert", get |-> g, Data |-> {}] : g \in {"notfound", "error"}}
        \cup {[op |-> "kubeadm.Convert", get |-> "ok", Data |-> d] : d \in KubeadmData}
        \cup {[op |-> "openshift.Convert", get |-> g, ClusterNetwork |-> <<>>] :
                 g \in {"notfound", "error"}}
        \cup {[op |-> "openshift.Convert", get |-> "ok", ClusterNetwork |-> l] :
                 l \in SeqsUpTo([CIDR : MergeTexts], MaxPlatform)}
        \cup {[op |-> "handleCanal", volume |-> v, get |-> "ok", netconf |-> [json |-> "bad"]] :
                 v \in {"none", "hostPath"}}
        \cup {[op |-> "handleCanal", volume |-> "configMap", get |-> g,
               netconf |-> [json |-> "bad"]] : g \in {"notfound", "error"}}
        \cup {[op |-> "handleCanal", volume |-> "configMap", get |-> "ok", netconf |-> n] :
                 n \in FlannelNetConfs}

\* ippools is Spec.CalicoNetwork.IPPools where there is a CalicoNetwork; the
\* call records in the field net whether there is one.
InitPlatform ==
    /\ \E n \in PlatformNets, x \in PlatformCalls :
          /\ call = x @@ [net |-> n.nil]
          /\ ippools = IF n.nil THEN NilPools ELSE n.v
    /\ ippools0 = ippools
    /\ platform = <<>>
    /\ mergeRet = NotCalled
    /\ out = NotCalled
    /\ gets = <<>>
    /\ CidrIdle
    /\ ConvIdle

\* Spec.CalicoNetwork as the call finds it.
netOf == IF call.net THEN NilPtr ELSE Ptr(ippools)

\* The call returns r.
platformReturns(r) ==
    /\ out' = [err |-> r.err, net |-> r.net.nil]
    /\ ippools' = IF r.net.nil THEN NilPools ELSE r.net.v
    /\ platform' = r.handed
    /\ mergeRet' = r.mergeErr
    /\ UNCHANGED <<call, gets, ippools0, cidrVars, convVars>>

CallKubeadmConvert ==
    /\ call.op = "kubeadm.Convert"
    /\ out = NotCalled
    /\ \E line \in submatches(call.Data) :
          platformReturns(kubeadm_Convert(call.get, call.Data, line, netOf))

CallOpenshiftConvert ==
    /\ call.op = "openshift.Convert"
    /\ out = NotCalled
    /\ platformReturns(openshift_Convert(call.get, call.ClusterNetwork, netOf))

CallHandleCanal ==
    /\ call.op = "handleCanal"
    /\ out = NotCalled
    /\ platformReturns(handleCanal(call.volume, call.get, call.netconf, netOf))

NextPlatform == CallKubeadmConvert \/ CallOpenshiftConvert \/ CallHandleCanal

SpecPlatform == InitPlatform /\ [][NextPlatform]_vars

(***************************************************************************)
(* Containment and address family stated on the literal itself, bit by     *)
(* bit, for the properties below.                                          *)
(***************************************************************************)
RefFamily(t) ==
    IF t.slash /\ t.sep = "." /\ Len(t.groups) = 4
       /\ (\A i \in 1..4 : t.groups[i] >= 0 /\ t.groups[i] < 256)
       /\ t.plen >= 0 /\ t.plen <= 32
    THEN "v4"
    ELSE IF t.slash /\ t.sep = ":" /\ Len(t.groups) = 8
            /\ (\A i \in 1..8 : t.groups[i] >= 0 /\ t.groups[i] < 65536)
            /\ t.plen >= 0 /\ t.plen <= 128
    THEN "v6"
    ELSE "malformed"

RefGroupBits(t) == IF t.sep = "." THEN 8 ELSE 16

\* Bit j (1 is the most significant) of the address of a well-formed literal.
RefBit(t, j) ==
    LET w == RefGroupBits(t)
        g == t.groups[((j - 1) \div w) + 1]
    IN  (g \div Pow2(w - 1 - ((j - 1) % w))) % 2

\* Bit j of the base address of the network: the host bits are zero.
RefBaseBit(t, j) == IF j <= t.plen THEN RefBit(t, j) ELSE 0

\* The outer network contains the inner network's base address.
RefContainsBase(outer, inner) ==
    /\ RefFamily(outer) = RefFamily(inner)
    /\ \A j \in 1..outer.plen : RefBit(outer, j) = RefBaseBit(inner, j)

RefWithin(outer, inner) ==
    /\ RefFamily(outer) # "malformed"
    /\ RefFamily(inner) # "malformed"
    /\ RefContainsBase(outer, inner)
    /\ inner.plen >= outer.plen

\* C2: cidrWithinCidr(outer, inner) is true iff both literals parse, the outer
\* network contains the inner network's base address and the inner prefix is
\* at least as long as the outer one; it is false for a malformed literal; the
\* table of utils_test.go holds, for IPv4 and for IPv6.
C2_CidrWithinIffContained ==
    cidrOut # NotCalled =>
        /\ cidrOut.val = RefWithin(cidrIn[1], cidrIn[2])
        /\ (RefFamily(cidrIn[1]) = "malformed" \/ RefFamily(cidrIn[2]) = "malformed"
                => cidrOut.val = FALSE)
        /\ cidrIn = <<T_192_168_16, T_192_168_16>> => cidrOut.val = TRUE
        /\ cidrIn = <<T_192_168_16, T_192_168_15>> => cidrOut.val = FALSE
        /\ cidrIn = <<T_192_168_2_24, T_192_168_16>> => cidrOut.val = FALSE
        /\ cidrIn = <<T_192_168_16, T_172_168_16>> => cidrOut.val = FALSE
        /\ cidrIn = <<T_192_168_16, T_192_168_2_24>> => cidrOut.val = TRUE
        /\ cidrIn = <<T_fd00_1234_32, T_fd00_1234_32>> => cidrOut.val = TRUE
        /\ cidrIn = <<T_fd00_1234_32, T_fd00_1234_31>> => cidrOut.val = FALSE
        /\ cidrIn = <<T_fd00_1234_56_40, T_fd00_1234_32>> => cidrOut.val = FALSE
        /\ cidrIn = <<T_fd00_1234_32, T_fd00_5678_32>> => cidrOut.val = FALSE
        /\ cidrIn = <<T_fd00_1234_32, T_fd00_1234_56_40>> => cidrOut.val = TRUE

\* The call has returned true for a strictly smaller IPv6 pool.
C2_Witness ==
    /\ cidrOut # NotCalled
    /\ cidrIn = <<T_fd00_1234_32, T_fd00_1234_56_40>>
    /\ cidrOut.val = TRUE

\* C3: with the pool list set, MergePlatformPodCIDRs leaves it as it was and
\* succeeds iff every configured pool is contained, as the inner network, in
\* at least one platform CIDR; the empty list always succeeds, a non-empty
\* list with no platform CIDR always fails.
C3_ConfiguredPoolsValidated ==
    (mergeRet # NotCalled /\ ~ippools0.nil) =>
        /\ ippools = ippools0
        /\ (mergeRet = NilErr) <=>
               \A j \in 1..Len(ippools0.items) :
                   \E k \in 1..Len(platform) :
                       RefWithin(platform[k], ippools0.items[j].CIDR)
        /\ Len(ippools0.items) = 0 => mergeRet = NilErr
        /\ (Len(ippools0.items) > 0 /\ Len(platform) = 0) => mergeRet # NilErr

\* Two configured pools, each within a different platform CIDR, and the
\* platform CIDRs not within the pools: the direction of the test matters.
C3_Witness ==
    /\ mergeRet = NilErr
    /\ ~ippools0.nil
    /\ Len(ippools0.items) = 2
    /\ Len(platform) = 2
    /\ ippools0.items[1].CIDR = T_fd00_1234_56_40
    /\ ippools0.items[2].CIDR = T_10_1_16
    /\ platform = <<T_10_8, T_fd00_1234_32>>

\* The indices of the platform CIDRs of one family.
RefOfFamily(cidrs, fam) == {k \in 1..Len(cidrs) : RefFamily(cidrs[k]) = fam}
RefFirst(S) == {k \in S : \A k2 \in S : k <= k2}
RefSelected(cidrs) == RefFirst(RefOfFamily(cidrs, "v4")) \cup RefFirst(RefOfFamily(cidrs, "v6"))

\* C4: with the pool list unset, MergePlatformPodCIDRs succeeds and the pools
\* are exactly the first parseable IPv4 CIDR and the first parseable IPv6 CIDR
\* of platformCIDRs, in the order they occur there; with nothing to select the
\* list stays unset.
C4_UnsetPoolsFromPlatform ==
    (mergeRet # NotCalled /\ ippools0.nil) =>
        LET sel == RefSelected(platform)
        IN  /\ mergeRet = NilErr
            /\ Len(ippools.items) = Cardinality(sel)
            /\ Len(ippools.items) <= 2
            /\ ippools.nil <=> sel = {}
            /\ \A a \in 1..Len(ippools.items) :
                   \E k \in sel :
                       /\ ippools.items[a] = [CIDR |-> platform[k]]
                       /\ Cardinality({k2 \in sel : k2 < k}) = a - 1
            /\ Len(platform) = 0 => ippools = NilPools

\* A malformed entry is skipped and the IPv6 CIDR found after it is selected.
C4_Witness ==
    /\ mergeRet # NotCalled
    /\ ippools0.nil
    /\ platform = <<T_bad_33, T_fd00_1234_32>>
    /\ ippools = Pools(<<[CIDR |-> T_fd00_1234_32]>>)

(***************************************************************************)
(* The snapshot as the claims speak of it, read off the workload's         *)
(* containers.                                                             *)
(***************************************************************************)
RefLeast(S) == CHOOSE k \in S : \A k2 \in S : k <= k2

RefEnv(container) ==
    LET regular == {i \in 1..Len(client.spec.Containers) :
                        client.spec.Containers[i].Name = container}
        init == {i \in 1..Len(client.spec.InitContainers) :
                        client.spec.InitContainers[i].Name = container}
    IN  IF regular # {} THEN client.spec.Containers[RefLeast(regular)].Env
        ELSE IF init # {} THEN client.spec.InitContainers[RefLeast(init)].Env
        ELSE <<>>

RefHas(container, name) == \E i \in 1..Len(RefEnv(container)) : RefEnv(container)[i].Name = name

RefVar(container, name) ==
    RefEnv(container)[RefLeast({i \in 1..Len(RefEnv(container)) : RefEnv(container)[i].Name = name})]

\* CNI_NETWORK_CONFIG holds a CNI document that parses, as a conflist or as a
\* single plugin.
RefDocParses ==
    /\ RefHas(containerInstallCNI, "CNI_NETWORK_CONFIG")
    /\ RefVar(containerInstallCNI, "CNI_NETWORK_CONFIG").Value.kind = "cni"
    /\ RefVar(containerInstallCNI, "CNI_NETWORK_CONFIG").Value.doc.json = "ok"
    /\ RefVar(containerInstallCNI, "CNI_NETWORK_CONFIG").Value.doc.form \in {"conflist", "conf"}

RefDoc == RefVar(containerInstallCNI, "CNI_NETWORK_CONFIG").Value.doc

\* The variables of calico-node have the values the network handler accepts.
RefNodeEnvAccepted ==
    \A i \in 1..Len(RefEnv(containerCalicoNode)) :
        LET e == RefEnv(containerCalicoNode)[i]
        IN  \/ e.Name = "CALICO_NETWORKING_BACKEND" /\ e.Value = Str(S_bird)
            \/ e.Name = "IP_AUTODETECTION_METHOD" /\ e.Value = Str(S_interface_ \o S_eth0)

\* The conversion of SpecCNI has come to its end, with the error lastErr.
ConversionOver == pc \in {"done", "failed"}
lastErr == errs[Len(errs)]

C6_HostPortsTotal ==
    pc = "done" =>
        /\ ~config.CalicoNetwork.HostPorts.nil
        /\ config.CalicoNetwork.HostPorts.v = HostPortsEnabled
               <=> (RefDocParses /\ "portmap" \in RefDoc.plugins)

(***************************************************************************)
(* C7.  MTU resolution by loadCNI(c) and handleNetwork.  With the          *)
(* placeholder in the calico plugin: a run that succeeds has read CNI_MTU  *)
(* on install-cni and the output MTU is its integer value (1440 for        *)
(* "1440"), and a run without CNI_MTU fails.  With an explicit positive    *)
(* MTU m: the output MTU of a run that succeeds is m, CNI_MTU is not read, *)
(* and no run fails for want of it.                                        *)
(***************************************************************************)
RefIntegerValue(chars) ==
    IF chars = S_1440 THEN 1440 ELSE IF chars = S_9000 THEN 9000 ELSE 0

RefDecimal == {S_1440, S_9000}

RefLoadedMTU(conf) ==
    IF RefDoc.mtu.tok = "__CNI_MTU__" THEN conf.MTU < 0
    ELSE IF RefDoc.mtu.tok = "number" THEN conf.MTU = RefDoc.mtu.n
    ELSE TRUE

C8_SentinelIsNegative ==
    (RefDocParses /\ "calico" \in RefDoc.plugins) =>
        /\ (log = <<"loadCNI">> /\ pc = "loaded" /\ ~comps.calicoCNIConfig.nil)
               => RefLoadedMTU(comps.calicoCNIConfig.v)
        /\ (log = <<"loadCNI(c, cfg)">> /\ pc = "done")
               => RefLoadedMTU(comps.cniConfig.v)
        /\ (log = <<"handleCNI">> /\ ~calicoConf.nil)
               => RefLoadedMTU(calicoConf.v)

(***************************************************************************)
(* C9.  A plugin named bandwidth, a non-empty address-pool list of either  *)
(* family, the floating-IPs flag and the IP-addresses-without-IPAM flag    *)
(* each make the conversion fail with an ErrIncompatibleCluster, whatever  *)
(* else the document holds.                                                *)
(***************************************************************************)
C9_UnsupportedIsIncompatible ==
    (/\ ConversionOver
     /\ RefNodeEnvAccepted
     /\ RefDocParses
     /\ \/ "bandwidth" \in RefDoc.plugins
        \/ /\ "calico" \in RefDoc.plugins
           /\ \/ RefDoc.v4pools > 0
              \/ RefDoc.v6pools > 0
              \/ RefDoc.floating
              \/ RefDoc.noipam)
        => lastErr.type = "ErrIncompatibleCluster"

(***************************************************************************)
(* C1.  Whenever a container of the calico-node workload, regular or init, *)
(* carries a variable that no handler reads or ignores, GetExistingConfig  *)
(* returns an error and no config.                                         *)
(***************************************************************************)
\* The names the handlers of the first parser.go read or ignore.
RefRecognized ==
    ({containerCalicoNode} \X
        {"CALICO_NETWORKING_BACKEND", "FELIX_DEFAULTENDPOINTTOHOSTACTION", "IP",
         "DATASTORE_TYPE", "WAIT_FOR_DATASTORE", "CLUSTER_TYPE", "NODENAME",
         "CALICO_DISABLE_FILE_LOGGING"})
        \cup ({containerInstallCNI} \X {"CNI_NETWORK_CONFIG", "CNI_MTU"})

\* The names of the snapshots that start with FELIX_ and have no handler of
\* their own: the pass-through namespace.
RefPassThrough == {"FELIX_LOGSEVERITYSCREEN"}

RefUnknownIn(containers) ==
    \E i \in 1..Len(containers) : \E j \in 1..Len(containers[i].Env) :
        /\ <<containers[i].Name, containers[i].Env[j].Name>> \notin RefRecognized
        /\ ~(containers[i].Name = containerCalicoNode /\ containers[i].Env[j].Name \in RefPassThrough)

RefUnknownVar ==
    RefUnknownIn(client.spec.Containers) \/ RefUnknownIn(client.spec.InitContainers)

C1_UnknownVarFails ==
    (pc = "returned" /\ client.node = "ok" /\ client.kc = "ok" /\ RefUnknownVar)
        => (ret.err # NilErr /\ ret.config.nil)

(***************************************************************************)
(* C10.  All or nothing: when GetExistingConfig returns an error it        *)
(* returns no config; the error is the one the first failing handler       *)
(* returned, unchanged; and no handler runs after a handler that failed.   *)
(***************************************************************************)
C10_AllOrNothing ==
    /\ \A i \in 1..Len(errs) : errs[i] # NilErr => i = Len(errs)
    /\ (pc = "returned" /\ ret.err # NilErr) =>
           /\ ret.config.nil
           /\ errs # <<>> => ret.err = errs[Len(errs)]
           /\ errs = <<>> => ret.err = clientGet("error")

\* handleNetwork has failed, GetExistingConfig has returned its error, and
\* handleCore has not looked at the DATASTORE_TYPE the snapshot carries.
C10_Witness ==
    /\ pc = "returned"
    /\ log = <<"handleNetwork">>
    /\ ret = [config |-> NilPtr, err |-> errs[1]]
    /\ errs[1].type = "ErrIncompatibleCluster"
    /\ RefHas(containerCalicoNode, "DATASTORE_TYPE")
    /\ <<containerCalicoNode, "DATASTORE_TYPE">> \notin comps.checkedVars

(***************************************************************************)
(* The variable a getEnv call of SpecEnv asked for, as the snapshot holds  *)
(* it.                                                                     *)
(***************************************************************************)
RefAsked == RefVar(call.container, call.key)
RefAskedPresent == call.op = "getEnv" /\ RefHas(call.container, call.key)
RefUnsupportedKinds == {"secretKeyRef", "fieldRef", "resourceFieldRef"}

(***************************************************************************)
(* C11.  getEnv of a variable that is present with no literal value and a  *)
(* secret, pod-field or resource-field reference returns an                *)
(* ErrIncompatibleCluster, and client.Get is not called.                   *)
(***************************************************************************)
C11_UnsupportedRefIsIncompatible ==
    (/\ RefAskedPresent
     /\ RefAsked.Value = EmptyStr
     /\ RefAsked.ValueFrom.kind \in RefUnsupportedKinds)
        => (out.err.type = "ErrIncompatibleCluster" /\ out.gets = <<>>)

\* getEnv has been asked for a variable that refers to a resource field, on
\* a snapshot whose ConfigMap is there, and has returned the error.
C11_Witness ==
    /\ RefAskedPresent
    /\ RefAsked.Value = EmptyStr
    /\ RefAsked.ValueFrom.kind = "resourceFieldRef"
    /\ out.err.type = "ErrIncompatibleCluster"
    /\ out.ptr = Ptr(EmptyStr)
    /\ gets = <<>>

(***************************************************************************)
(* C12.  getEnv of a variable that refers to a key of a ConfigMap fetches  *)
(* that ConfigMap in kube-system.  It returns the value at the key when    *)
(* the ConfigMap and the key are there, the error of the fetch, unchanged, *)
(* when the fetch fails, and an error when the ConfigMap is there without  *)
(* the key.                                                                *)
(***************************************************************************)
RefConfigMapThere == client.cm.get = "ok" /\ RefAsked.ValueFrom.name = client.cm.name
RefKeyThere == \E i \in 1..Len(client.cm.Data) : client.cm.Data[i][1] = RefAsked.ValueFrom.key
RefValueAtKey ==
    client.cm.Data[RefLeast({i \in 1..Len(client.cm.Data) :
                                client.cm.Data[i][1] = RefAsked.ValueFrom.key})][2]

C12_ConfigMapKeyResolution ==
    (/\ RefAskedPresent
     /\ RefAsked.Value = EmptyStr
     /\ RefAsked.ValueFrom.kind = "configMapKeyRef")
        => /\ out.gets = <<[Kind |-> "ConfigMap", Namespace |-> "kube-system",
                            Name |-> RefAsked.ValueFrom.name]>>
           /\ (RefConfigMapThere /\ RefKeyThere)
                  => (out.err = NilErr /\ out.ptr = Ptr(RefValueAtKey))
           /\ (client.cm.get = "error") => out.err = StatusError("InternalError")
           /\ (client.cm.get # "error" /\ ~RefConfigMapThere) => out.err = StatusError("NotFound")
           /\ (RefConfigMapThere /\ ~RefKeyThere) => out.err # NilErr

(***************************************************************************)
(* C13.  getEnv of a variable that is present with a literal value and no  *)
(* indirection returns that literal, the empty one included, with no error *)
(* and without a call of client.Get.                                       *)
(***************************************************************************)
C13_LiteralResolves ==
    (RefAskedPresent /\ RefAsked.ValueFrom.kind = "nil")
        => (out.ptr = Ptr(RefAsked.Value) /\ out.err = NilErr /\ out.gets = <<>>)

(***************************************************************************)
(* C14.  getEnv of a name the snapshot does not hold on that container     *)
(* returns nil and no error, also when the workload has no container of    *)
(* that name.                                                              *)
(***************************************************************************)
C14_AbsenceIsNotAnError ==
    (call.op = "getEnv" /\ ~RefHas(call.container, call.key))
        => (out.ptr = NilPtr /\ out.err = NilErr)

(***************************************************************************)
(* C15.  uncheckedVars, after any getEnv and ignoreEnv calls: for each     *)
(* container those calls have marked a name of, regular or init, it        *)
(* returns exactly the names present on the container that are not marked. *)
(***************************************************************************)
RefTouched == {p[1] : p \in comps.checkedVars}
RefUnclaimed(container) ==
    {<<container, RefEnv(container)[i].Name>> : i \in 1..Len(RefEnv(container))}
        \ comps.checkedVars
RefReported(container) ==
    {out.unchecked[i] : i \in {k \in 1..Len(out.unchecked) : out.unchecked[k][1] = container}}

C15_UncheckedVarsExact ==
    (call.op = "uncheckedVars")
        => \A container \in RefTouched : RefReported(container) = RefUnclaimed(container)

(***************************************************************************)
(* C16.  GetExistingConfig returns a config only if each of these          *)
(* variables of calico-node that is present resolves to its one supported  *)
(* value: CALICO_NETWORKING_BACKEND to bird, the empty string not being    *)
(* accepted; FELIX_DEFAULTENDPOINTTOHOSTACTION to accept and IP to         *)
(* autodetect, in any case of the letters; DATASTORE_TYPE to kubernetes.   *)
(***************************************************************************)
\* What the variable resolves to when the ConfigMap can be fetched.
RefResolved(e) ==
    IF e.ValueFrom.kind = "configMapKeyRef"
    THEN IF \E i \in 1..Len(client.cm.Data) : client.cm.Data[i][1] = e.ValueFrom.key
         THEN client.cm.Data[RefLeast({i \in 1..Len(client.cm.Data) :
                                          client.cm.Data[i][1] = e.ValueFrom.key})][2]
         ELSE EmptyStr
    ELSE e.Value

RefNodeValue(name) == RefResolved(RefVar(containerCalicoNode, name))

RefSucceeded == pc = "returned" /\ ret.err = NilErr /\ ~ret.config.nil

C16_OnlySupportedValuesSucceed ==
    RefSucceeded =>
        /\ RefHas(containerCalicoNode, "CALICO_NETWORKING_BACKEND")
               => RefNodeValue("CALICO_NETWORKING_BACKEND") = Str(S_bird)
        /\ RefHas(containerCalicoNode, "FELIX_DEFAULTENDPOINTTOHOSTACTION")
               => ToLower(RefNodeValue("FELIX_DEFAULTENDPOINTTOHOSTACTION").chars) = S_accept
        /\ RefHas(containerCalicoNode, "IP")
               => ToLower(RefNodeValue("IP").chars) = S_autodetect
        /\ RefHas(containerCalicoNode, "DATASTORE_TYPE")
               => RefNodeValue("DATASTORE_TYPE") = Str(S_kubernetes)

(***************************************************************************)
(* C17.  getAutoDetection classifies every method string.  "" and          *)
(* "first-found" give FirstFound = true and nothing else; "interface=X",   *)
(* "can-reach=X" and "skip-interface=X" give Interface, CanReach and       *)
(* SkipInterface = X and nothing else, X being all that follows the        *)
(* prefix; any other string gives an error and the empty result.  A        *)
(* result without an error has exactly one strategy set.                   *)
(***************************************************************************)
RefStarts(m, prefix) ==
    Len(m) >= Len(prefix) /\ \A i \in 1..Len(prefix) : m[i] = prefix[i]
RefRest(m, prefix) == [i \in 1..(Len(m) - Len(prefix)) |-> m[Len(prefix) + i]]

RefEmptyResult ==
    [FirstFound |-> NilPtr, Interface |-> <<>>, CanReach |-> <<>>, SkipInterface |-> <<>>]

RefStrategiesSet(res) ==
    (IF res.FirstFound.nil THEN {} ELSE {"FirstFound"})
        \cup {f \in {"Interface", "CanReach", "SkipInterface"} : res[f] # <<>>}

RefClassified(m) ==
    IF m = <<>> \/ m = S_first_found
    THEN [RefEmptyResult EXCEPT !.FirstFound = Ptr(TRUE)]
    ELSE IF RefStarts(m, S_interface_)
    THEN [RefEmptyResult EXCEPT !.Interface = RefRest(m, S_interface_)]
    ELSE IF RefStarts(m, S_can_reach_)
    THEN [RefEmptyResult EXCEPT !.CanReach = RefRest(m, S_can_reach_)]
    ELSE [RefEmptyResult EXCEPT !.SkipInterface = RefRest(m, S_skip_interface_)]

RefRecognizedMethod(m) ==
    \/ m = <<>>
    \/ m = S_first_found
    \/ \E prefix \in {S_interface_, S_can_reach_, S_skip_interface_} : RefStarts(m, prefix)

C17_AutoDetectionClassifies ==
    (call.op = "getAutoDetection" /\ out # NotCalled) =>
        /\ RefRecognizedMethod(call.method)
               => (out.err = NilErr /\ out.res = RefClassified(call.method))
        /\ ~RefRecognizedMethod(call.method)
               => (out.err # NilErr /\ out.res = RefEmptyResult)
        /\ out.err = NilErr => Cardinality(RefStrategiesSet(out.res)) = 1

(***************************************************************************)
(* C18.  The error MergePlatformPodCIDRs returns for a configured pool     *)
(* that no platform CIDR contains is an ErrIncompatibleCluster, and it     *)
(* names the CIDR of the first such pool.                                  *)
(***************************************************************************)
RefOutside ==
    {j \in 1..Len(ippools0.items) :
        ~\E k \in 1..Len(platform) : RefWithin(platform[k], ippools0.items[j].CIDR)}

C18_PoolErrorIsIncompatible ==
    (mergeRet # NotCalled /\ ~ippools0.nil /\ RefOutside # {}) =>
        /\ mergeRet.type = "ErrIncompatibleCluster"
        /\ mergeRet.arg = ippools0.items[RefLeast(RefOutside)].CIDR

(***************************************************************************)
(* C19.  The ErrIncompatibleCluster a handler returns when it rejects the  *)
(* value of a variable names that variable: CALICO_NETWORKING_BACKEND,     *)
(* FELIX_DEFAULTENDPOINTTOHOSTACTION, IP or DATASTORE_TYPE.                *)
(***************************************************************************)
\* The variable names that occur in the text of a message.
RefNamedIn(msg) ==
    IF msg = "only CALICO_NETWORKING_BACKEND=bird is supported at this time"
    THEN {"CALICO_NETWORKING_BACKEND"}
    ELSE IF msg = "unexpected FELIX_DEFAULTENDPOINTTOHOSTACTION: '%s'. Only 'accept' is supported."
    THEN {"FELIX_DEFAULTENDPOINTTOHOSTACTION"}
    ELSE IF msg = "unexpected IP value: '%s'. Only 'autodetect' is supported."
    THEN {"IP"}
    ELSE {}

\* The variables handleNetwork validates, in the order it reads them.
RefValidated == <<"CALICO_NETWORKING_BACKEND", "FELIX_DEFAULTENDPOINTTOHOSTACTION", "IP">>

\* The variable has a value: a literal or a key of the ConfigMap.
RefHasValue(name) ==
    \/ RefVar(containerCalicoNode, name).Value # EmptyStr
    \/ RefVar(containerCalicoNode, name).ValueFrom.kind = "configMapKeyRef"

\* The value is one the handler lets through.
RefLetThrough(name) ==
    IF name = "CALICO_NETWORKING_BACKEND" THEN RefNodeValue(name) \in {Str(S_bird), EmptyStr}
    ELSE IF name = "FELIX_DEFAULTENDPOINTTOHOSTACTION"
    THEN ToLower(RefNodeValue(name).chars) = S_accept
    ELSE IF name = "IP" THEN ToLower(RefNodeValue(name).chars) = S_autodetect
    ELSE RefNodeValue(name) = Str(S_kubernetes)

RefPasses(name) ==
    RefHas(containerCalicoNode, name) => (RefHasValue(name) /\ RefLetThrough(name))
RefRejects(name) ==
    RefHas(containerCalicoNode, name) /\ RefHasValue(name) /\ ~RefLetThrough(name)

C19_ReasonNamesVariable ==
    (pc = "returned" /\ ret.err.type = "ErrIncompatibleCluster") =>
        /\ \A k \in 1..Len(RefValidated) :
               (/\ log = <<"handleNetwork">>
                /\ RefRejects(RefValidated[k])
                /\ \A k2 \in 1..(k - 1) : RefPasses(RefValidated[k2]))
                   => RefValidated[k] \in RefNamedIn(ret.err.err)
        /\ (log = <<"handleNetwork", "handleCore">> /\ RefRejects("DATASTORE_TYPE"))
               => "DATASTORE_TYPE" \in RefNamedIn(ret.err.err)

(***************************************************************************)
(* C20.  GetExistingConfig returns no config and no error exactly when the *)
(* calico-node DaemonSet does not exist; a missing calico-kube-controllers *)
(* Deployment does not make it do so; and a client.Get that fails for      *)
(* another reason is returned as the error.                                *)
(***************************************************************************)
C20_NotFoundIffNoWorkload ==
    pc = "returned" =>
        /\ (ret = [config |-> NilPtr, err |-> NilErr]) <=> (client.node = "notfound")
        /\ (client.node = "error" \/ (client.node = "ok" /\ client.kc = "error"))
               => ret = [config |-> NilPtr, err |-> StatusError("InternalError")]

(***************************************************************************)
(* Platform CIDR discovery.                                                *)
(***************************************************************************)
RefParses(t) == ParseCIDR(t).err = NilErr
RefDiscovered == call.op \in {"kubeadm.Convert", "openshift.Convert", "handleCanal"} /\ out # NotCalled
RefWritten == {j \in 1..Len(ippools.items) : \A j0 \in 1..Len(ippools0.items) : ippools0.items[j0] # ippools.items[j]}

\* C21: whichever discovery path ran (the kubeadm podSubnet scan, the
\* OpenShift cluster network, the flannel configuration of Canal), every
\* string it handed to the merge and every pool CIDR it wrote parses as a
\* CIDR.
C21_DiscoveredCIDRsParse ==
    RefDiscovered =>
        /\ \A k \in 1..Len(platform) : RefParses(platform[k])
        /\ \A j \in RefWritten : RefParses(ippools.items[j].CIDR)


\* C26: kubeadm.Convert on a cluster without the kubeadm-config ConfigMap
\* returns, and returns what MergePlatformPodCIDRs gives for an empty
\* platform list, leaving the pools as that merge leaves them; any other
\* failure to fetch the ConfigMap is returned as an error.
C26_MissingKubeadmConfigIsEmpty ==
    (call.op = "kubeadm.Convert" /\ out # NotCalled) =>
        /\ (call.get = "notfound" /\ ~call.net) =>
              /\ out.err # Panic
              /\ out.err = MergePlatformPodCIDRs(ippools0, <<>>).err
              /\ ippools = MergePlatformPodCIDRs(ippools0, <<>>).pools
        /\ call.get = "error" => out.err \notin {NilErr, Panic}

(***************************************************************************)
(* The FELIX_ pass-through namespace.                                      *)
(***************************************************************************)
\* C22: when GetExistingConfig returns a config for a snapshot whose
\* calico-node container carries a FELIX_ variable that has no handler of its
\* own, the variable is on the checklist as consumed and the config's
\* FelixEnvVars holds it, name and value as the container has them; and the
\* run does not fail on account of that variable.
C22_FelixPassThrough ==
    \A name \in RefPassThrough :
        (pc = "returned" /\ RefHas(containerCalicoNode, name)) =>
            /\ RefSucceeded =>
                  /\ <<containerCalicoNode, name>> \in comps.checkedVars
                  /\ \E i \in 1..Len(ret.config.v.FelixEnvVars) :
                        ret.config.v.FelixEnvVars[i] = RefVar(containerCalicoNode, name)
            /\ ret.err.type = "ErrIncompatibleCluster" => name \notin RefNamedIn(ret.err.err)

RefNetworkDone == pc = "done" /\ log = <<"loadCNI", "handleNetwork">>
RefMethod == RefVar(containerCalicoNode, "IP_AUTODETECTION_METHOD").Value.chars

\* C24: after a handleNetwork that succeeded, the fields written before the
\* MTU are as they were written: NodeAddressAutodetectionV4 is what
\* IP_AUTODETECTION_METHOD parses to, where the variable is present, and
\* HostPorts is what the check for the portmap plugin set; with a templated
\* MTU as with an explicit one.
C24_MTUWriteKeepsFields ==
    RefNetworkDone =>
        /\ RefHas(containerCalicoNode, "IP_AUTODETECTION_METHOD") =>
              config.CalicoNetwork.NodeAddressAutodetectionV4 = Ptr(getAutoDetection(RefMethod).res)
        /\ config.CalicoNetwork.HostPorts = Ptr(hostPortsOf(comps.pluginCNIConfig))

(***************************************************************************)
(* The conversion of CNI_MTU.                                              *)
(***************************************************************************)
S_2147483647 == <<"2", "1", "4", "7", "4", "8", "3", "6", "4", "7">>

\* chars is the decimal of a positive 32-bit integer: digits only, not all
\* of them zero, and not above 2147483647.
RefPositiveInt32(chars) ==
    /\ Len(chars) \in 1..10
    /\ \A i \in 1..Len(chars) : IsDigit(chars[i])
    /\ \E i \in 1..Len(chars) : chars[i] # "0"
    /\ Len(chars) = 10 =>
          \/ chars = S_2147483647
          \/ \E i \in 1..10 :
                /\ \A k \in 1..(i - 1) : chars[k] = S_2147483647[k]
                /\ DigitValue(chars[i]) < DigitValue(S_2147483647[i])

\* C25: a handleNetwork that read CNI_MTU on install-cni and succeeded read
\* the decimal of a positive 32-bit integer; any other value (not a number,
\* zero, negative, out of range) makes the conversion fail.
C25_BadMTUNeverSucceeds ==
    (/\ RefNetworkDone
     /\ RefHas(containerInstallCNI, "CNI_MTU")
     /\ <<containerInstallCNI, "CNI_MTU">> \in comps.checkedVars)
        => RefPositiveInt32(RefVar(containerInstallCNI, "CNI_MTU").Value.chars)

(***************************************************************************)
(* The merge, called twice.                                                *)
(***************************************************************************)
\* C27: where a first MergePlatformPodCIDRs succeeded, a second call with
\* the same platform list succeeds as well and leaves the pools exactly as
\* the first call left them.
C27_MergeIsIdempotent ==
    (call.op = "MergePlatformPodCIDRs" /\ mergeRet = NilErr) =>
        /\ out.err = NilErr
        /\ ippools = call.pools

\* The first call took a pool of each family from the platform list, and the
\* second call found them within it.
C27_Witness ==
    /\ call.op = "MergePlatformPodCIDRs"
    /\ mergeRet = NilErr
    /\ ippools0 = NilPools
    /\ Len(call.pools.items) = 2
    /\ out.err = NilErr
    /\ ippools = call.pools

====
